---- MODULE Spec2Model ----
(***************************************************************************)
(* State-machine model of the generation orchestrator of                   *)
(* ai_image_generator: RateLimiter, the task executor with the global      *)
(* semaphore and its retry loop, the upload cache, and StateManager with   *)
(* run()/resume.                                                           *)
(*                                                                         *)
(* The module holds several specifications over one set of variables; each *)
(* one moves the variables of the component it is about and leaves the     *)
(* others as Init set them.                                                *)
(*   SpecRL     threads calling RateLimiter.acquire                        *)
(*   SpecTask   image tasks running generate_single                        *)
(*   SpecRetry  the retry loop of generate_single with its delays          *)
(*   SpecUpload group workers going through the upload cache               *)
(*   SpecRun    run() with StateManager, a crash and a resume              *)
(*   SpecGroup  run_group: task preparation, the futures, the GroupResult  *)
(*   SpecPlan   run() from its configuration to the dispatch of the groups *)
(*   SpecAlloc  _allocate_scene_prompts, one group at a time               *)
(*   SpecRefs   _allocate_references_for_groups on its arguments           *)
(*   SpecSelect run_group from its choice of products to its GroupResult    *)
(*   SpecResume the prompt plan of a run and of its resume                  *)
(*   SpecResults run_group from its image tasks to its results and text     *)
(*   SpecSummary run() collecting its groups: counters, log, RunResult       *)
(***************************************************************************)
EXTENDS Integers, Sequences, FiniteSets, TLC

(***************************************************************************)
(* Bounds of the model.                                                    *)
(***************************************************************************)
\* threads calling RateLimiter.acquire in SpecRL
NumThreads == 3
\* RateLimiter(max_requests, time_window): the constructor arguments, scaled
\* down from the defaults 20 and 10.0; one unit of time is 0.1 s
max_requests == 2
time_window == 2

\* the 0.1 s added to every wait (engine.py:73), one unit of time
Epsilon == 1

\* image tasks running generate_single in SpecTask, spread over NumGroups groups
NumTasks == 2
NumGroups == 2
\* threading.Semaphore(100) (engine.py:121), scaled down
SemSize == 1
\* max_retries = 6 (engine.py:1178), scaled down
max_retries == 2
\* retry_delay_base = 3 (engine.py:1179): delays are counted in units of it
retry_delay_base == 1
\* retry_delay_max = 120 (engine.py:1180), 40 units, scaled down
retry_delay_max == 4

\* group workers in SpecUpload, each preparing one task of its group in
\* run_group, the local assets, and the URLs an asset can be given
NumWorkers == 2
NumPaths == 2
MaxIssue == 1

\* the times the process is killed in SpecRun
MaxCrashes == 1

\* template_cfg.images_per_group: the image tasks of one group in SpecGroup
images_per_group == 2

\* _allocate_references_for_groups in SpecRefs: the largest reference pool
\* and the largest group_count
NumRefs == 3
MaxRefGroups == 5
\* product images in the pool, at most
NumProducts == 3
\* images_per_group of the template, at most
MaxPerGroup == 3
\* specified product images, at most
MaxPinned == 2
\* image tasks of a group in SpecResults, at most
MaxTasks == 3

\* _allocate_scene_prompts in SpecAlloc: the largest prompt pool, the largest
\* group_count and the longest list of specified prompt ids
NumPrompts == 3
MaxGroupCount == 3
MaxSpecified == 2

Threads == 1..NumThreads
Tasks == 1..NumTasks
Workers == 1..NumWorkers
Paths == 1..NumPaths
GroupOf(t) == (t - 1) % NumGroups
\* for group_index in range(template_cfg.group_count)
Groups == 0..(NumGroups - 1)

\* Python's None, where the other values are texts, URLs, moss ids
None == "None"
NoUrl == <<>>
NoId == 0

VARIABLES
    pc,         \* pc[t]: where thread t is
    requests,   \* RateLimiter.requests: the recorded admissions, oldest first
    wait,       \* wait[t]: what is left of thread t's time.sleep(wait_time)
    admitted,   \* history: every admission made, while it is younger than time_window
    use_rate_limiter,  \* GenerationEngine._use_rate_limiter
    sem,        \* free permits of GenerationEngine._concurrent_semaphore
    attempt,    \* attempt[t]: the loop variable of generate_single
    last_error, \* last_error[t]: the local last_error of generate_single
    calls,      \* history: calls[t] counts task t's calls of api_client.generate_image
    last_delay, \* last_delay[t]: the local last_delay of generate_single, 0 while it does not run
    last_raised,  \* history: last_raised[t] is the error that task t's latest call raised
    uploaded_urls,      \* GenerationEngine._uploaded_urls: path -> URL
    uploaded_moss_ids,  \* GenerationEngine._uploaded_moss_ids: path -> moss_id
    upload_lock,        \* the worker inside "with self._upload_lock", or 0
    up_paths,   \* up_paths[w]: the argument paths of worker w's call in progress
    up_i,       \* up_i[w]: how many of up_paths[w] the for loop has dealt with
    up_urls,    \* up_urls[w]: the local list urls of _upload_images
    upload_calls,  \* history: upload_calls[p] counts upload_batch_sync([p], folder)
    upload_ok,     \* history: upload_ok[p] counts those that returned a result
    got,        \* history: got[p] is the first URL handed to a caller of _upload_images for p
    differ,     \* history: differ[p] holds once a caller was handed another URL for p than got[p]
    cur,        \* history: cur[p] holds the URLs handed out for p since its cache entry was written
    files,      \* files[d]: the content of d/results.json on disk
    sm_state,   \* engine.state_manager._state
    sm_lock,    \* StateManager._lock is held
    run_pc,     \* where the main thread of the process is
    resume_dir, \* args.resume_dir of the invocation, "-" without --resume
    load_in,    \* history: the file content that load_state read
    load_out,   \* what load_state gave: the local state of main
    marked,     \* history: the groups whose mark_group_complete has returned
    result,     \* RunResult.completed_groups, -1 before run() returns
    crashes,    \* history: the times the process was killed
    g_pc,       \* g_pc[g]: where the worker of group g is in run_group
    tasks,      \* tasks[g]: the length of the local list tasks of run_group
    future,     \* future[g][i]: the state of the future of generate_single(task i)
    images,     \* images[g]: GroupResult.images of the group, <<>> before it is built
    config,     \* what run() reads: the template, the resource directories, the operator
    reference_assignments,  \* GenerationEngine._reference_assignments
    scene,      \* the arguments and the template that _allocate_scene_prompts reads
    alloc_pc,   \* where _allocate_scene_prompts is
    plan,       \* the local list result of _allocate_scene_prompts
    used_prompts, \* the local set used_prompts of _allocate_scene_prompts
    ref_args,  \* the arguments of a call of _allocate_references_for_groups
    ref_pc,  \* where that call is: idle, call, returned
    ref_plan, \* what the call returned: the reference of each group
    sel_args,  \* the arguments and configuration of one run_group call
    sel_pc,  \* where that call is
    group_tasks,  \* run_group: group_tasks, the product of each task in order
    sel_images,  \* the image indexes of the GroupResult, in its order
    sel_error,  \* the exception that left run_group, or None
    sel_complete, \* the state manager has the group as complete
    invocation,  \* which process of the run is at work: 1 the original, 2 the resume
    first_plan, \* the prompt plan that the original invocation computed
    res_args,  \* the template and the number of image tasks of one run_group call
    res_pc,  \* where that call is
    results,  \* _run_concurrent_generation_v2: results, its items in the order they were put in
    image_results,  \* run_group: image_results, the list that _run_concurrent_generation_v2 returned
    text_calls, \* how often text_generator.generate_sync was called
    results_lock,  \* run(): results_lock, the group whose thread holds it, or NoGroup
    snap,  \* execute_group: the counters as a thread read them inside the lock
    group_images,  \* the images of each GroupResult: how many, and how many succeeded
    total_images,  \* run(): total_images
    successful_images,  \* run(): successful_images
    failed_images,  \* run(): failed_images
    log_groups,  \* generation_log.groups, the group indexes in the order they were appended
    summary  \* the RunResult of run(), kind none before it

rlvars == <<requests, wait, admitted>>
taskvars == <<use_rate_limiter, sem, attempt, last_error, calls>>
retryvars == <<last_delay, last_raised>>
groupvars == <<g_pc, tasks, future, images>>
planvars == <<config, reference_assignments>>
allocvars == <<scene, alloc_pc, plan, used_prompts>>
upvars == <<uploaded_urls, uploaded_moss_ids, upload_lock, up_paths, up_i, up_urls,
            upload_calls, upload_ok, got, differ, cur>>
smvars == <<files, sm_state, sm_lock, run_pc, resume_dir, load_in, load_out, marked,
            result, crashes>>
refvars == <<ref_args, ref_pc, ref_plan>>
selvars == <<sel_args, sel_pc, group_tasks, sel_images, sel_error, sel_complete>>
resvars == <<invocation, first_plan>>
outvars == <<res_args, res_pc, results, image_results, text_calls>>
sumvars == <<results_lock, snap, group_images, total_images, successful_images, failed_images, log_groups, summary>>
vars == <<pc, rlvars, taskvars, retryvars, upvars, smvars, groupvars, planvars, allocvars, refvars, selvars, resvars, outvars, sumvars>>
\* what the rate limiter's steps leave alone
notrl == <<taskvars, retryvars, upvars, smvars, groupvars, planvars, allocvars, refvars,
             selvars,
             resvars,
             outvars,
             sumvars>>
\* what the steps of generate_single outside the rate limiter leave alone
nottask == <<rlvars, retryvars, upvars, smvars, groupvars, planvars, allocvars, refvars,
             selvars,
             resvars,
             outvars,
             sumvars>>
\* what the steps of the upload cache leave alone
notup == <<rlvars, taskvars, retryvars, smvars, groupvars, planvars, allocvars, refvars,
             selvars,
             resvars,
             outvars,
             sumvars>>
\* what the steps of run() and StateManager leave alone
notsm == <<rlvars, taskvars, retryvars, upvars, groupvars, planvars, allocvars, refvars,
             selvars,
             resvars,
             outvars,
             sumvars>>
\* what the steps of run_group leave alone
notgroup == <<pc, rlvars, taskvars, retryvars, upvars, smvars, planvars, allocvars,
             refvars,
             selvars,
             resvars,
             outvars,
             sumvars>>
\* what the steps of run() before and around the dispatch leave alone
notplan == <<rlvars, taskvars, retryvars, upvars, groupvars, config, sm_lock, resume_dir,
             load_in, load_out, crashes, allocvars,
             refvars,
             selvars,
             resvars,
             outvars,
             sumvars>>
\* what the steps of _allocate_scene_prompts leave alone
notalloc == <<pc, rlvars, taskvars, retryvars, upvars, smvars, groupvars, planvars,
             refvars,
             selvars,
             resvars,
             outvars,
             sumvars>>
\* what the steps of run_group on its products leave alone
notsel == <<pc, rlvars, taskvars, retryvars, upvars, smvars, groupvars, planvars, allocvars, refvars,
             resvars,
             outvars,
             sumvars>>
\* what the start of a resume leaves alone
notresume == <<pc, rlvars, taskvars, retryvars, upvars, smvars, groupvars, planvars, refvars,
              selvars,
             outvars,
             sumvars>>
\* what the steps of run_group on its results leave alone
notout == <<pc, rlvars, taskvars, retryvars, upvars, smvars, groupvars, planvars, allocvars,
           refvars, selvars, resvars,
             sumvars>>
\* what the steps of run() on its counters and its log leave alone
notsum == <<rlvars, taskvars, retryvars, upvars, smvars, groupvars, planvars, allocvars,
           refvars, selvars, resvars, outvars>>
\* what a call of _allocate_references_for_groups leaves alone
notrefs == <<pc, rlvars, taskvars, retryvars, upvars, smvars, groupvars, planvars, allocvars,
             selvars,
             resvars,
             outvars,
             sumvars>>
\* what the steps of one task's retry loop leave alone
notretry == <<rlvars, use_rate_limiter, upvars, smvars, groupvars, planvars, allocvars,
             refvars,
             selvars,
             resvars,
             outvars,
             sumvars>>

(***************************************************************************)
(* The values of StateManager (state_manager.py) and RunState              *)
(* (models.py:343-370).                                                    *)
(*                                                                         *)
(* A RunState is kept as the keys of completed_groups and current_group;   *)
(* the payload of a group (GroupResult.to_dict()) and the three fields     *)
(* template_config_path, run_dir, started_at are left out.  A key carries  *)
(* its Python type: mark_group_complete stores the int group_index, and    *)
(* JSON has only text keys.                                                *)
(***************************************************************************)
IntKey(g) == <<"int", g>>
StrKey(g) == <<"str", g>>

\* current_group = None
NoGroup == -1

\* Optional[RunState]: None, or a RunState
NoState == [kind |-> "none", completed |-> {}, current |-> NoGroup]
RunState(completed_groups, current_group) ==
    [kind |-> "state", completed |-> completed_groups, current |-> current_group]

\* What results.json can be: not there; there but no JSON text (empty or cut
\* short); JSON text without the fields of a RunState (what
\* batch_image_generator.py:849 writes under this name); or a dumped RunState.
Absent == [kind |-> "absent", completed |-> {}, current |-> NoGroup]
Partial == [kind |-> "partial", completed |-> {}, current |-> NoGroup]
NoField == [kind |-> "nofield", completed |-> {}, current |-> NoGroup]

\* the outcomes of load_state besides a RunState and None: it raised
\* GeneratorError; it has not been called
Raised == [kind |-> "raise", completed |-> {}, current |-> NoGroup]
NotCalled == [kind |-> "notcalled", completed |-> {}, current |-> NoGroup]

\* the directories that --resume can name: output_base and a run directory
\* below it
Dirs == {"base", "run"}

\* self.state_file = self.state_dir / "results.json" is computed once, in
\* __init__, for the engine's StateManager(state_dir=output_base)
\* (cli.py:369); the later assignments to state_dir (engine.py:682,
\* cli.py:635) do not move it
StateFile == "base"

\* json.dump(state.to_dict(), f): every key of completed_groups is written
\* as text
Serialize(st) ==
    [kind |-> "json",
     completed |-> {StrKey(k[2]) : k \in st.completed},
     current |-> st.current]

\* RunState.from_dict(json.load(f)): the keys stay the texts that JSON holds
FromDict(data) == RunState(data.completed, data.current)

\* load_state on a file of the given content
LoadState(content) ==
    CASE content.kind = "absent" -> NoState
      [] content.kind = "partial" -> Raised
      [] content.kind = "nofield" -> NoState
      [] OTHER -> FromDict(content)

\* is_group_complete: group_index in self._state.completed_groups
IsGroupComplete(st, g) == st.kind = "state" /\ IntKey(g) \in st.completed

\* open(self.state_file, "w") leaves the file empty until the dump
Truncate(f) == Partial

Dump_buffered(f, st) == f

\* json.dump(...) into the file just opened, and the with block closes it
Dump(f, st) == Serialize(st)

\* the process-wide state where no run is going on
IdleRun ==
    /\ files = [d \in Dirs |-> Absent]
    /\ sm_state = NoState
    /\ sm_lock = FALSE
    /\ run_pc = "off"
    /\ resume_dir = "-"
    /\ load_in = Absent
    /\ load_out = NotCalled
    /\ marked = {}
    /\ result = -1
    /\ crashes = 0

(***************************************************************************)
(* RateLimiter (engine.py:41-78).                                          *)
(*                                                                         *)
(* Timestamps are kept relative to the clock: an entry a of requests       *)
(* stands for the timestamp now - a, so that the code's "now - t" is a.    *)
(* Ages stop growing at time_window, which is all that acquire reads of    *)
(* them.  time.time() is taken to be non-decreasing.                       *)
(***************************************************************************)

Prune_never(reqs) == reqs

\* self.requests = [t for t in self.requests if now - t < self.time_window]
Prune(reqs) == SelectSeq(reqs, LAMBDA a : a < time_window)

HasQuota_offbyone(reqs) == Len(reqs) <= max_requests

\* if len(self.requests) < self.max_requests
HasQuota(reqs) == Len(reqs) < max_requests

\* wait_time = self.time_window - (now - oldest) + 0.1, oldest = self.requests[0]
WaitTime(reqs) == time_window - reqs[1] + Epsilon

\* One pass of the while loop of acquire() by thread t, the body of
\* "with self._lock" taken as one step: prune, then either record now and
\* return (the caller goes on at pc value ret) or compute wait_time and sleep.
RLCheck(t, ret) ==
    /\ pc[t] = "rl_check"
    /\ LET pruned == Prune(requests) IN
       IF HasQuota(pruned)
       THEN /\ requests' = Append(pruned, 0)
            /\ admitted' = Append(admitted, 0)
            /\ pc' = [pc EXCEPT ![t] = ret]
            /\ wait' = wait
       ELSE /\ requests' = pruned
            /\ admitted' = admitted
            /\ IF WaitTime(pruned) > 0
               THEN /\ wait' = [wait EXCEPT ![t] = WaitTime(pruned)]
                    /\ pc' = [pc EXCEPT ![t] = "rl_sleep"]
               ELSE /\ wait' = wait
                    /\ pc' = pc
    /\ UNCHANGED notrl

\* time.sleep(wait_time) returns, not before wait_time has passed; the loop
\* then runs the whole check again.
RLWake(t) ==
    /\ pc[t] = "rl_sleep"
    /\ wait[t] = 0
    /\ pc' = [pc EXCEPT ![t] = "rl_check"]
    /\ UNCHANGED <<requests, wait, admitted>>
    /\ UNCHANGED notrl

Older(a) == IF a < time_window THEN a + 1 ELSE a

\* One unit of time passes: every recorded timestamp is one unit older and
\* every sleeper has one unit less to sleep.  The history drops an admission
\* when it leaves the trailing window.
TickRL ==
    /\ requests' = [i \in 1..Len(requests) |-> Older(requests[i])]
    /\ wait' = [t \in DOMAIN wait |-> IF wait[t] > 0 THEN wait[t] - 1 ELSE 0]
    /\ admitted' = SelectSeq([i \in 1..Len(admitted) |-> admitted[i] + 1],
                             LAMBDA a : a < time_window)

\* A thread calls acquire().
RLCall(t) ==
    /\ pc[t] = "idle"
    /\ pc' = [pc EXCEPT ![t] = "rl_check"]
    /\ UNCHANGED <<requests, wait, admitted>>
    /\ UNCHANGED notrl

\* the state of a RateLimiter() just constructed
InitLimiter ==
    /\ requests = <<>>
    /\ admitted = <<>>

\* the engine's fields that a specification does not move
IdleTasks ==
    /\ use_rate_limiter = TRUE
    /\ sem = SemSize
    /\ attempt = [t \in Tasks |-> 0]
    /\ last_error = [t \in Tasks |-> None]
    /\ calls = [t \in Tasks |-> 0]
    /\ last_delay = [t \in Tasks |-> 0]
    /\ last_raised = [t \in Tasks |-> None]

\* the image tasks of a group: image_index + 1
Images == 1..images_per_group

\* no group worker is running run_group
IdleGroup ==
    /\ g_pc = [g \in Groups |-> "idle"]
    /\ tasks = [g \in Groups |-> 0]
    /\ future = [g \in Groups |-> [i \in Images |-> "none"]]
    /\ images = [g \in Groups |-> <<>>]

\* A template that generates images in scene mode with nothing specified,
\* resources in plenty and run(dry_run=False, auto_confirm=True).
\*   generation_target   template_cfg.generation_target
\*   reference_images    what list_images finds in the reference directory
\*   specified           whether the template names a prompt id, and whether
\*                       find_prompt_by_id finds it: "none", "known", "unknown"
\*   short               the checks of engine.py:537-563 other than the
\*                       reference count give a warning
\*   operator            "auto" for auto_confirm, else the answer to the prompt,
\*                       "eof" when input() raises EOFError
DefaultConfig ==
    [mode |-> "scene_generation", generation_target |-> "both", dry_run |-> FALSE,
     reference_images |-> <<>>, specified |-> "none", short |-> FALSE,
     operator |-> "auto"]

\* an engine just constructed: self._reference_assignments = []
IdlePlan ==
    /\ config = DefaultConfig
    /\ reference_assignments = <<>>

\* _allocate_scene_prompts is not running
IdleAlloc ==
    /\ scene = [prompts |-> {}, specified_prompts |-> <<>>, group_count |-> 0]
    /\ alloc_pc = "idle"
    /\ plan = <<>>
    /\ used_prompts = {}

\* _allocate_references_for_groups is not being called
IdleRefs ==
    /\ ref_args = [reference_images |-> <<>>, group_count |-> 0, specified_image |-> NoId,
                    specified_coverage |-> 0]
    /\ ref_pc = "idle"
    /\ ref_plan = <<>>

\* run_group is not being followed through its choice of products
IdleSelect ==
    /\ sel_args = [mode |-> "scene_generation", product_images |-> <<>>,
                    specified_product_images |-> <<>>, images_per_group |-> 0,
                    group_reference_image |-> NoId]
    /\ sel_pc = "idle"
    /\ group_tasks = <<>>
    /\ sel_images = <<>>
    /\ sel_error = None
    /\ sel_complete = FALSE

\* no run is being followed from its original invocation into its resume
IdleResume ==
    /\ invocation = 0
    /\ first_plan = <<>>

\* run_group is not being followed through its results and its text
IdleResults ==
    /\ res_args = [tasks |-> 0, generation_target |-> "both", text_enabled |-> FALSE]
    /\ res_pc = "idle"
    /\ results = <<>>
    /\ image_results = <<>>
    /\ text_calls = 0

\* run() is not being followed through its counters and its generation log
IdleSummary ==
    /\ results_lock = NoGroup
    /\ snap = [g \in Groups |-> [total |-> 0, successful |-> 0, failed |-> 0]]
    /\ group_images = [g \in Groups |-> [n |-> 0, ok |-> 0]]
    /\ total_images = 0
    /\ successful_images = 0
    /\ failed_images = 0
    /\ log_groups = <<>>
    /\ summary = [kind |-> "none", total |-> 0, successful |-> 0, failed |-> 0, completed |-> 0]

\* the upload cache of an engine just constructed (engine.py:112-114)
EmptyCache ==
    /\ uploaded_urls = [p \in Paths |-> NoUrl]
    /\ uploaded_moss_ids = [p \in Paths |-> NoId]
    /\ upload_lock = 0
    /\ up_paths = [w \in Workers |-> <<>>]
    /\ up_i = [w \in Workers |-> 0]
    /\ up_urls = [w \in Workers |-> <<>>]
    /\ upload_calls = [p \in Paths |-> 0]
    /\ upload_ok = [p \in Paths |-> 0]
    /\ got = [p \in Paths |-> NoUrl]
    /\ differ = [p \in Paths |-> FALSE]
    /\ cur = [p \in Paths |-> {}]

InitRL ==
    /\ pc = [t \in Threads |-> "idle"]
    /\ wait = [t \in Threads |-> 0]
    /\ InitLimiter
    /\ IdleTasks
    /\ EmptyCache
    /\ IdleGroup
    /\ IdlePlan
    /\ IdleAlloc
    /\ IdleRun
    /\ IdleRefs
    /\ IdleSelect
    /\ IdleResume
    /\ IdleResults
    /\ IdleSummary

Tick ==
    /\ TickRL
    /\ UNCHANGED pc
    /\ UNCHANGED notrl

NextRL ==
    \/ \E t \in Threads : RLCall(t)
    \/ \E t \in Threads : RLCheck(t, "idle")
    \/ \E t \in Threads : RLWake(t)
    \/ Tick

SpecRL == InitRL /\ [][NextRL]_vars

(***************************************************************************)
(* generate_single (engine.py:1182-1273): one image task.                  *)
(*                                                                         *)
(*   pending   submitted, not yet past _concurrent_semaphore.acquire()     *)
(*   rl_check, rl_sleep   inside self._rate_limiter.acquire()              *)
(*   call      inside api_client.generate_image                            *)
(*   backoff   inside time.sleep(delay) of the except handler              *)
(*   success, failed   returned an ImageResult                             *)
(*   raised    left by an exception that the handler does not catch        *)
(***************************************************************************)

\* The texts str(e) of the exceptions that api_client.generate_image raises
\* here: a rate-limit answer and an authentication failure of create_task.
Err429 == "429 Too Many Requests"
Err401 == "401 Unauthorized"
Errors == {Err429, Err401}

\* generate_image is create_task, wait_for_result, download_result
\* (seedream_client.py:323-329): download_result runs once the backend has
\* reported the generation as successful, and when its requests.get times out
\* it raises APIError("<url>, <e>") (seedream_client.py:283-284).
\* This is the text of e.
ErrDownload == "Read timed out. (read timeout=60)"

RetryableMarks ==
    {"429", "too high", "timeout", "timed out", "500", "502", "503", "520",
     "522", "524", "fail"}

\* the substrings of an error text among those that is_retryable looks for
MarksIn(err) ==
    CASE err = Err429 -> {"429"}
      [] err = ErrDownload -> {"timed out", "timeout"}
      [] OTHER -> {}

IsRetryable_any(err) == TRUE

\* is_retryable = "429" in error_str or ... or "fail" in error_str.lower()
IsRetryable(err) == MarksIn(err) \cap RetryableMarks # {}

CanRetry_inclusive(err, att) == IsRetryable(err) /\ att <= max_retries

\* if is_retryable and attempt < max_retries
CanRetry(err, att) == IsRetryable(err) /\ att < max_retries

SemCanAcquire_nonblocking(s) == TRUE

\* Semaphore.acquire() returns only when a permit is free
SemCanAcquire(s) == s > 0

SemRelease_noFinally(s, how) == IF how = "raised" THEN s ELSE s + 1

\* finally: self._concurrent_semaphore.release(), however the task ended
SemRelease(s, how) == s + 1

AttemptStart_unlimited == "call"

\* where an attempt starts: if self._use_rate_limiter: self._rate_limiter.acquire()
AttemptStart == IF use_rate_limiter THEN "rl_check" ELSE "call"

InFlightStates == {"rl_check", "rl_sleep", "call", "backoff"}
Finished == {"success", "failed", "raised"}

\* self._concurrent_semaphore.acquire(), then attempt 0 starts
TaskStart(t) ==
    /\ pc[t] = "pending"
    /\ SemCanAcquire(sem)
    /\ sem' = sem - 1
    /\ pc' = [pc EXCEPT ![t] = AttemptStart]
    /\ UNCHANGED <<use_rate_limiter, attempt, last_error, calls>>
    /\ UNCHANGED nottask

\* api_client.generate_image returns a result: the task returns a successful
\* ImageResult and the finally clause releases the permit
CallOk(t) ==
    /\ pc[t] = "call"
    /\ calls' = [calls EXCEPT ![t] = @ + 1]
    /\ pc' = [pc EXCEPT ![t] = "success"]
    /\ sem' = SemRelease(sem, "success")
    /\ UNCHANGED <<use_rate_limiter, attempt, last_error>>
    /\ UNCHANGED nottask

\* api_client.generate_image raises an Exception with text err: the handler
\* keeps it in last_error and either sleeps before the next attempt or breaks
\* out of the loop, returns the failed ImageResult and releases the permit
CallFails(t, err) ==
    /\ pc[t] = "call"
    /\ calls' = [calls EXCEPT ![t] = @ + 1]
    /\ last_error' = [last_error EXCEPT ![t] = err]
    /\ IF CanRetry(err, attempt[t])
       THEN /\ pc' = [pc EXCEPT ![t] = "backoff"]
            /\ sem' = sem
       ELSE /\ pc' = [pc EXCEPT ![t] = "failed"]
            /\ sem' = SemRelease(sem, "failed")
    /\ UNCHANGED <<use_rate_limiter, attempt>>
    /\ UNCHANGED nottask

\* api_client.generate_image ends with an exception that "except Exception"
\* does not catch: it leaves generate_single through the finally clause
CallRaises(t) ==
    /\ pc[t] = "call"
    /\ calls' = [calls EXCEPT ![t] = @ + 1]
    /\ pc' = [pc EXCEPT ![t] = "raised"]
    /\ sem' = SemRelease(sem, "raised")
    /\ UNCHANGED <<use_rate_limiter, attempt, last_error>>
    /\ UNCHANGED nottask

\* time.sleep(delay) returns and "continue" takes the next value of
\* range(max_retries + 1); when the range is used up the loop ends and the
\* failed ImageResult is returned
BackoffDone(t) ==
    /\ pc[t] = "backoff"
    /\ IF attempt[t] + 1 <= max_retries
       THEN /\ attempt' = [attempt EXCEPT ![t] = @ + 1]
            /\ pc' = [pc EXCEPT ![t] = AttemptStart]
            /\ sem' = sem
       ELSE /\ attempt' = attempt
            /\ pc' = [pc EXCEPT ![t] = "failed"]
            /\ sem' = SemRelease(sem, "failed")
    /\ UNCHANGED <<use_rate_limiter, last_error, calls>>
    /\ UNCHANGED nottask

\* The engine after __init__ and _load_configs, with every task of every
\* group submitted: _use_rate_limiter is False for an "openrouter/" model.
InitTask ==
    /\ pc = [t \in Tasks |-> "pending"]
    /\ wait = [t \in Tasks |-> 0]
    /\ InitLimiter
    /\ use_rate_limiter \in BOOLEAN
    /\ sem = SemSize
    /\ attempt = [t \in Tasks |-> 0]
    /\ last_error = [t \in Tasks |-> None]
    /\ calls = [t \in Tasks |-> 0]
    /\ last_delay = [t \in Tasks |-> 0]
    /\ last_raised = [t \in Tasks |-> None]
    /\ EmptyCache
    /\ IdleGroup
    /\ IdlePlan
    /\ IdleAlloc
    /\ IdleRun
    /\ IdleRefs
    /\ IdleSelect
    /\ IdleResume
    /\ IdleResults
    /\ IdleSummary

NextTask ==
    \/ \E t \in Tasks : TaskStart(t)
    \/ \E t \in Tasks : RLCheck(t, "call")
    \/ \E t \in Tasks : RLWake(t)
    \/ Tick
    \/ \E t \in Tasks : CallOk(t)
    \/ \E t \in Tasks, err \in Errors : CallFails(t, err)
    \/ \E t \in Tasks : CallRaises(t)
    \/ \E t \in Tasks : BackoffDone(t)

SpecTask == InitTask /\ [][NextTask]_vars

InFlight == {t \in Tasks : pc[t] \in InFlightStates}

(***************************************************************************)
(* The except handler of generate_single (engine.py:1229-1273) in full:    *)
(* what it keeps in last_error, which delay it draws, and what the task    *)
(* returns.  The engine here is one of an "openrouter/" model, which       *)
(* has no rate limiter (engine.py:1203), so AttemptStart is "call"; the    *)
(* tasks go through the semaphore as in SpecTask.  Delays are whole        *)
(* multiples of retry_delay_base.                                          *)
(***************************************************************************)

\* what api_client.generate_image can raise: create_task's errors and the
\* download's
ClientErrors == Errors \cup {ErrDownload}

\* random.uniform(a, b) with a <= b: any value from a to b
Uniform(a, b) == a..b

Capped_uncapped(u) == u

\* min(retry_delay_max, u)
Capped(u) == IF u < retry_delay_max THEN u ELSE retry_delay_max

\* delay = min(retry_delay_max, random.uniform(retry_delay_base, last_delay * 3))
NextDelays(last) == {Capped(u) : u \in Uniform(retry_delay_base, last * 3)}

KeepError_first(old, e) == IF old = None THEN e ELSE old

\* last_error = e
KeepError(old, e) == e

\* generate_single returns or is left: its local last_delay is gone
Returned(t) == [last_delay EXCEPT ![t] = 0]

\* last_error = None, last_delay = retry_delay_base,
\* self._concurrent_semaphore.acquire(), then attempt 0 starts
RetryEnter(t) ==
    /\ pc[t] = "pending"
    /\ SemCanAcquire(sem)
    /\ sem' = sem - 1
    /\ pc' = [pc EXCEPT ![t] = AttemptStart]
    /\ last_error' = [last_error EXCEPT ![t] = None]
    /\ last_delay' = [last_delay EXCEPT ![t] = retry_delay_base]
    /\ UNCHANGED <<attempt, calls, last_raised>>
    /\ UNCHANGED notretry

\* api_client.generate_image returns a result: return ImageResult(success=True)
RetryOk(t) ==
    /\ pc[t] = "call"
    /\ calls' = [calls EXCEPT ![t] = @ + 1]
    /\ pc' = [pc EXCEPT ![t] = "success"]
    /\ sem' = SemRelease(sem, "success")
    /\ last_delay' = Returned(t)
    /\ UNCHANGED <<attempt, last_error, last_raised>>
    /\ UNCHANGED notretry

\* except Exception as e: last_error = e; if is_retryable and attempt <
\* max_retries: draw the delay, keep it in last_delay, sleep, continue;
\* else: break, and the failed ImageResult carries str(last_error)
RetryFails(t, err) ==
    /\ pc[t] = "call"
    /\ calls' = [calls EXCEPT ![t] = @ + 1]
    /\ last_error' = [last_error EXCEPT ![t] = KeepError(@, err)]
    /\ last_raised' = [last_raised EXCEPT ![t] = err]
    /\ IF CanRetry(err, attempt[t])
       THEN /\ \E delay \in NextDelays(last_delay[t]) :
                  last_delay' = [last_delay EXCEPT ![t] = delay]
            /\ pc' = [pc EXCEPT ![t] = "backoff"]
            /\ sem' = sem
       ELSE /\ last_delay' = Returned(t)
            /\ pc' = [pc EXCEPT ![t] = "failed"]
            /\ sem' = SemRelease(sem, "failed")
    /\ UNCHANGED attempt
    /\ UNCHANGED notretry

\* an exception that "except Exception" does not catch leaves generate_single
RetryRaises(t) ==
    /\ pc[t] = "call"
    /\ calls' = [calls EXCEPT ![t] = @ + 1]
    /\ pc' = [pc EXCEPT ![t] = "raised"]
    /\ sem' = SemRelease(sem, "raised")
    /\ last_delay' = Returned(t)
    /\ UNCHANGED <<attempt, last_error, last_raised>>
    /\ UNCHANGED notretry

\* time.sleep(delay) returns and "continue" takes the next value of
\* range(max_retries + 1)
RetrySlept(t) ==
    /\ pc[t] = "backoff"
    /\ IF attempt[t] + 1 <= max_retries
       THEN /\ attempt' = [attempt EXCEPT ![t] = @ + 1]
            /\ pc' = [pc EXCEPT ![t] = AttemptStart]
            /\ sem' = sem
            /\ last_delay' = last_delay
       ELSE /\ attempt' = attempt
            /\ pc' = [pc EXCEPT ![t] = "failed"]
            /\ sem' = SemRelease(sem, "failed")
            /\ last_delay' = Returned(t)
    /\ UNCHANGED <<last_error, calls, last_raised>>
    /\ UNCHANGED notretry

InitRetry ==
    /\ pc = [t \in Tasks |-> "pending"]
    /\ wait = [t \in Tasks |-> 0]
    /\ InitLimiter
    /\ use_rate_limiter = FALSE
    /\ sem = SemSize
    /\ attempt = [t \in Tasks |-> 0]
    /\ last_error = [t \in Tasks |-> None]
    /\ calls = [t \in Tasks |-> 0]
    /\ last_delay = [t \in Tasks |-> 0]
    /\ last_raised = [t \in Tasks |-> None]
    /\ EmptyCache
    /\ IdleGroup
    /\ IdlePlan
    /\ IdleAlloc
    /\ IdleRun
    /\ IdleRefs
    /\ IdleSelect
    /\ IdleResume
    /\ IdleResults
    /\ IdleSummary

NextRetry ==
    \/ \E t \in Tasks : RetryEnter(t)
    \/ \E t \in Tasks : RetryOk(t)
    \/ \E t \in Tasks, err \in ClientErrors : RetryFails(t, err)
    \/ \E t \in Tasks : RetryRaises(t)
    \/ \E t \in Tasks : RetrySlept(t)

SpecRetry == InitRetry /\ [][NextRetry]_vars

(***************************************************************************)
(* The upload cache (engine.py:164-214) as run_group drives it             *)
(* (engine.py:962-976): for each task of its group a worker calls          *)
(* _upload_images(images_to_upload) and then _refresh_urls of the same     *)
(* list.  Each worker here prepares one task; the tasks that one group     *)
(* prepares one after the other are workers that happen not to overlap.    *)
(*                                                                         *)
(*   idle        before the task                                           *)
(*   up_loop     in _upload_images, before "with self._upload_lock"        *)
(*   uploading   in moss_uploader.upload_batch_sync, holding the lock      *)
(*   ref_enter   before "with self._upload_lock" of _refresh_urls          *)
(*   refreshing  in moss_uploader.refresh_urls_sync, holding the lock      *)
(*   done, raised   the task has its URLs / an uploader error has left     *)
(*               run_group                                                 *)
(***************************************************************************)

\* the moss_id the uploader gives to a local asset, and the n-th URL it
\* issues for a moss_id (a presigned URL may differ each time it is issued)
MossId(p) == p
Url(id, n) == <<id, n>>

\* images_to_upload = [prod_img] or [prod_img, ref_img]: the last path is
\* the group's reference image, the others are product images
PathLists == {<<p>> : p \in Paths \ {NumPaths}} \cup {<<p, NumPaths>> : p \in Paths \ {NumPaths}}

LockIsFree_unguarded(l) == TRUE

\* "with self._upload_lock" is entered only when no thread is inside
LockIsFree(l) == l = 0

\* a URL is handed to a caller of _upload_images for path key
Handed(key, url) ==
    /\ got' = [got EXCEPT ![key] = IF @ = NoUrl THEN url ELSE @]
    /\ differ' = [differ EXCEPT ![key] = @ \/ (got[key] # NoUrl /\ got[key] # url)]
    /\ cur' = [cur EXCEPT ![key] = @ \cup {url}]

\* a worker starts to prepare its task: image_urls = self._upload_images(...)
UploadCall(w, paths) ==
    /\ pc[w] = "idle"
    /\ up_paths' = [up_paths EXCEPT ![w] = paths]
    /\ up_i' = [up_i EXCEPT ![w] = 0]
    /\ up_urls' = [up_urls EXCEPT ![w] = <<>>]
    /\ pc' = [pc EXCEPT ![w] = "up_loop"]
    /\ UNCHANGED <<uploaded_urls, uploaded_moss_ids, upload_lock, upload_calls,
                   upload_ok, got, differ, cur>>
    /\ UNCHANGED notup

\* One pass of "for path in paths": the worker takes the lock; a cached key
\* gives its URL at once (continue), any other key starts the upload with
\* the lock held.
UploadNext(w) ==
    /\ pc[w] = "up_loop"
    /\ up_i[w] < Len(up_paths[w])
    /\ LockIsFree(upload_lock)
    /\ LET key == up_paths[w][up_i[w] + 1] IN
       IF uploaded_urls[key] # NoUrl
       THEN /\ up_urls' = [up_urls EXCEPT ![w] = Append(@, uploaded_urls[key])]
            /\ Handed(key, uploaded_urls[key])
            /\ up_i' = [up_i EXCEPT ![w] = @ + 1]
            /\ UNCHANGED <<pc, upload_lock, upload_calls>>
       ELSE /\ upload_lock' = w
            /\ upload_calls' = [upload_calls EXCEPT ![key] = @ + 1]
            /\ pc' = [pc EXCEPT ![w] = "uploading"]
            /\ UNCHANGED <<up_urls, got, differ, cur, up_i>>
    /\ UNCHANGED <<uploaded_urls, uploaded_moss_ids, up_paths, upload_ok>>
    /\ UNCHANGED notup

\* upload_batch_sync([path], folder) returns its one result: both caches are
\* written, the URL is appended, the lock is released
UploadDone(w) ==
    /\ pc[w] = "uploading"
    /\ LET key == up_paths[w][up_i[w] + 1]
           url == Url(MossId(key), 0) IN
       /\ uploaded_urls' = [uploaded_urls EXCEPT ![key] = url]
       /\ uploaded_moss_ids' = [uploaded_moss_ids EXCEPT ![key] = MossId(key)]
       /\ up_urls' = [up_urls EXCEPT ![w] = Append(@, url)]
       /\ Handed(key, url)
       /\ upload_ok' = [upload_ok EXCEPT ![key] = @ + 1]
    /\ upload_lock' = 0
    /\ up_i' = [up_i EXCEPT ![w] = @ + 1]
    /\ pc' = [pc EXCEPT ![w] = "up_loop"]
    /\ UNCHANGED <<up_paths, upload_calls>>
    /\ UNCHANGED notup

\* the locals of a call of _upload_images or _refresh_urls end with it
DropLocals(w) ==
    /\ up_paths' = [up_paths EXCEPT ![w] = <<>>]
    /\ up_i' = [up_i EXCEPT ![w] = 0]
    /\ up_urls' = [up_urls EXCEPT ![w] = <<>>]

\* upload_batch_sync raises (MOSSError, a network error): nothing is cached,
\* the with statement releases the lock, the exception leaves _upload_images
\* and run_group
UploadFails(w) ==
    /\ pc[w] = "uploading"
    /\ upload_lock' = 0
    /\ pc' = [pc EXCEPT ![w] = "raised"]
    /\ DropLocals(w)
    /\ UNCHANGED <<uploaded_urls, uploaded_moss_ids,
                   upload_calls, upload_ok, got, differ, cur>>
    /\ UNCHANGED notup

\* return urls: the local list ends with the call; run_group goes on with
\* fresh_urls = self._refresh_urls(images_to_upload)
UploadReturn(w) ==
    /\ pc[w] = "up_loop"
    /\ up_i[w] = Len(up_paths[w])
    /\ up_urls' = [up_urls EXCEPT ![w] = <<>>]
    /\ up_i' = [up_i EXCEPT ![w] = 0]
    /\ pc' = [pc EXCEPT ![w] = "ref_enter"]
    /\ UNCHANGED <<uploaded_urls, uploaded_moss_ids, upload_lock, up_paths,
                   upload_calls, upload_ok, got, differ, cur>>
    /\ UNCHANGED notup

\* moss_ids: the cached ids of the paths, in the order of the paths
CachedIds(paths) ==
    LET ids == [i \in 1..Len(paths) |-> uploaded_moss_ids[paths[i]]]
    IN SelectSeq(ids, LAMBDA id : id # NoId)

\* _refresh_urls: under the lock collect moss_ids; with none, return []
RefreshEnter(w) ==
    /\ pc[w] = "ref_enter"
    /\ LockIsFree(upload_lock)
    /\ IF CachedIds(up_paths[w]) # <<>>
       THEN /\ upload_lock' = w
            /\ pc' = [pc EXCEPT ![w] = "refreshing"]
            /\ UNCHANGED <<up_paths, up_i, up_urls>>
       ELSE /\ upload_lock' = upload_lock
            /\ pc' = [pc EXCEPT ![w] = "done"]
            /\ DropLocals(w)
    /\ UNCHANGED <<uploaded_urls, uploaded_moss_ids,
                   upload_calls, upload_ok, got, differ, cur>>
    /\ UNCHANGED notup

\* for i, path in enumerate(paths): if i < len(new_urls):
\*     self._uploaded_urls[key] = new_urls[i]
Rewritten(paths, new_urls) ==
    {paths[i] : i \in {j \in 1..Len(paths) : j <= Len(new_urls)}}
LastIndexOf(paths, p, n) ==
    CHOOSE i \in 1..n : paths[i] = p /\ \A j \in (i + 1)..n : paths[j] # p

\* refresh_urls_sync(moss_ids) returns one URL per moss_id, the n-th issued
\* for it; the cache is rewritten and the lock released
RefreshDone(w, n) ==
    /\ pc[w] = "refreshing"
    /\ LET paths == up_paths[w]
           ids == CachedIds(paths)
           new_urls == [i \in 1..Len(ids) |-> Url(ids[i], n)]
           k == IF Len(new_urls) < Len(paths) THEN Len(new_urls) ELSE Len(paths)
       IN /\ uploaded_urls' =
                [p \in Paths |->
                    IF p \in Rewritten(paths, new_urls)
                    THEN new_urls[LastIndexOf(paths, p, k)]
                    ELSE uploaded_urls[p]]
          /\ cur' =
                [p \in Paths |->
                    IF p \in Rewritten(paths, new_urls) THEN {} ELSE cur[p]]
    /\ upload_lock' = 0
    /\ pc' = [pc EXCEPT ![w] = "done"]
    /\ DropLocals(w)
    /\ UNCHANGED <<uploaded_moss_ids, upload_calls, upload_ok, got, differ>>
    /\ UNCHANGED notup

\* refresh_urls_sync raises: the lock is released, the exception leaves
\* _refresh_urls and run_group
RefreshFails(w) ==
    /\ pc[w] = "refreshing"
    /\ upload_lock' = 0
    /\ pc' = [pc EXCEPT ![w] = "raised"]
    /\ DropLocals(w)
    /\ UNCHANGED <<uploaded_urls, uploaded_moss_ids,
                   upload_calls, upload_ok, got, differ, cur>>
    /\ UNCHANGED notup

InitUpload ==
    /\ pc = [w \in Workers |-> "idle"]
    /\ wait = [w \in Workers |-> 0]
    /\ InitLimiter
    /\ IdleTasks
    /\ EmptyCache
    /\ IdleGroup
    /\ IdlePlan
    /\ IdleAlloc
    /\ IdleRun
    /\ IdleRefs
    /\ IdleSelect
    /\ IdleResume
    /\ IdleResults
    /\ IdleSummary

NextUpload ==
    \/ \E w \in Workers, paths \in PathLists : UploadCall(w, paths)
    \/ \E w \in Workers : UploadNext(w)
    \/ \E w \in Workers : UploadDone(w)
    \/ \E w \in Workers : UploadFails(w)
    \/ \E w \in Workers : UploadReturn(w)
    \/ \E w \in Workers : RefreshEnter(w)
    \/ \E w \in Workers, n \in 0..MaxIssue : RefreshDone(w, n)
    \/ \E w \in Workers : RefreshFails(w)

SpecUpload == InitUpload /\ [][NextUpload]_vars

(***************************************************************************)
(* run() with StateManager (engine.py:678-813, run_group at 870 and 1094,  *)
(* state_manager.py), the process being killed, and main() with --resume   *)
(* (cli.py:589-642).                                                       *)
(*                                                                         *)
(* Each of init_state, mark_group_started, mark_group_complete is two      *)
(* steps: the first takes the lock, changes _state and opens the file for  *)
(* writing, which empties it; the second dumps _state into it, closes it   *)
(* and releases the lock.                                                  *)
(*                                                                         *)
(* run_pc:  off       no process                                           *)
(*          start     main() is about to call engine.run                   *)
(*          init_w    in init_state, the file open                         *)
(*          dispatch  init_state has returned                              *)
(*          collect   the groups are submitted to the executor             *)
(*          exit      run() has returned its RunResult                     *)
(*          crashed   the process was killed                               *)
(*          rejected, fatal   main() returned 1 / load_state raised        *)
(* pc[g]:   none, skipped, pending, mark_started (file open), running,     *)
(*          mark_complete (file open), returned, raised                    *)
(***************************************************************************)
Alive == {"start", "init_w", "dispatch", "collect"}
Settled == {"skipped", "returned", "raised"}

\* the file after a step that wrote content into the state file
Written(content) == [files EXCEPT ![StateFile] = content]

\* main() without --resume creates the engine and calls engine.run
NewRun ==
    /\ run_pc = "off"
    /\ run_pc' = "start"
    /\ UNCHANGED <<pc, files, sm_state, sm_lock, resume_dir, load_in, load_out, marked,
                   result, crashes>>
    /\ UNCHANGED notsm

\* self.state_manager.init_state(...): _state becomes a RunState with
\* completed_groups={}, then save_state opens the file
InitStateBegin ==
    /\ run_pc = "start"
    /\ ~sm_lock
    /\ sm_lock' = TRUE
    /\ sm_state' = RunState({}, NoGroup)
    /\ files' = Written(Truncate(files[StateFile]))
    /\ run_pc' = "init_w"
    /\ UNCHANGED <<pc, resume_dir, load_in, load_out, marked, result, crashes>>
    /\ UNCHANGED notsm

InitStateEnd ==
    /\ run_pc = "init_w"
    /\ files' = Written(Dump(files[StateFile], sm_state))
    /\ sm_lock' = FALSE
    /\ run_pc' = "dispatch"
    /\ UNCHANGED <<pc, sm_state, resume_dir, load_in, load_out, marked, result, crashes>>
    /\ UNCHANGED notsm

\* pending_groups: the groups for which is_group_complete is false; with
\* none, run() returns at once with completed_groups=group_count, else it
\* submits them all
Dispatch ==
    /\ run_pc = "dispatch"
    /\ LET pending_groups == {g \in Groups : ~IsGroupComplete(sm_state, g)} IN
       IF pending_groups = {}
       THEN /\ result' = NumGroups
            /\ run_pc' = "exit"
            /\ pc' = pc
       ELSE /\ result' = result
            /\ run_pc' = "collect"
            /\ pc' = [g \in Groups |->
                        IF g \in pending_groups THEN "pending" ELSE "skipped"]
    /\ UNCHANGED <<files, sm_state, sm_lock, resume_dir, load_in, load_out, marked, crashes>>
    /\ UNCHANGED notsm

\* run_group(g) starts: self.state_manager.mark_group_started(group_index)
MarkStartedBegin(g) ==
    /\ run_pc = "collect"
    /\ pc[g] = "pending"
    /\ ~sm_lock
    /\ sm_lock' = TRUE
    /\ sm_state' = [sm_state EXCEPT !.current = g]
    /\ files' = Written(Truncate(files[StateFile]))
    /\ pc' = [pc EXCEPT ![g] = "mark_started"]
    /\ UNCHANGED <<run_pc, resume_dir, load_in, load_out, marked, result, crashes>>
    /\ UNCHANGED notsm

MarkStartedEnd(g) ==
    /\ run_pc = "collect"
    /\ pc[g] = "mark_started"
    /\ files' = Written(Dump(files[StateFile], sm_state))
    /\ sm_lock' = FALSE
    /\ pc' = [pc EXCEPT ![g] = "running"]
    /\ UNCHANGED <<sm_state, run_pc, resume_dir, load_in, load_out, marked, result, crashes>>
    /\ UNCHANGED notsm

\* run_group(g) raises before it has a GroupResult (an upload fails, the
\* pools are empty): execute_group catches it and returns None
GroupRaises(g) ==
    /\ run_pc = "collect"
    /\ pc[g] = "running"
    /\ pc' = [pc EXCEPT ![g] = "raised"]
    /\ UNCHANGED smvars
    /\ UNCHANGED notsm

MarkedComplete_current_only(st, g) == [st EXCEPT !.current = NoGroup]

\* self._state.completed_groups[group_index] = result.to_dict()
\* self._state.current_group = None
MarkedComplete(st, g) ==
    [st EXCEPT !.completed = @ \cup {IntKey(g)}, !.current = NoGroup]

\* run_group(g) has its GroupResult:
\* self.state_manager.mark_group_complete(group_index, group_result)
MarkCompleteBegin(g) ==
    /\ run_pc = "collect"
    /\ pc[g] = "running"
    /\ ~sm_lock
    /\ sm_lock' = TRUE
    /\ sm_state' = MarkedComplete(sm_state, g)
    /\ files' = Written(Truncate(files[StateFile]))
    /\ pc' = [pc EXCEPT ![g] = "mark_complete"]
    /\ UNCHANGED <<run_pc, resume_dir, load_in, load_out, marked, result, crashes>>
    /\ UNCHANGED notsm

\* mark_group_complete returns, and run_group returns the GroupResult
MarkCompleteEnd(g) ==
    /\ run_pc = "collect"
    /\ pc[g] = "mark_complete"
    /\ files' = Written(Dump(files[StateFile], sm_state))
    /\ sm_lock' = FALSE
    /\ pc' = [pc EXCEPT ![g] = "returned"]
    /\ marked' = marked \cup {g}
    /\ UNCHANGED <<sm_state, run_pc, resume_dir, load_in, load_out, result, crashes>>
    /\ UNCHANGED notsm

\* group_results: the GroupResults that as_completed has handed over
GroupResults == {g \in Groups : pc[g] = "returned"}

\* every future is done: RunResult(completed_groups=len(group_results))
RunReturn ==
    /\ run_pc = "collect"
    /\ \A g \in Groups : pc[g] \in Settled
    /\ result' = Cardinality(GroupResults)
    /\ run_pc' = "exit"
    /\ UNCHANGED <<pc, files, sm_state, sm_lock, resume_dir, load_in, load_out, marked,
                   crashes>>
    /\ UNCHANGED notsm

\* The process is killed: its threads and its memory are gone, the files
\* stay as they are.
Crash ==
    /\ run_pc \in Alive
    /\ crashes < MaxCrashes
    /\ crashes' = crashes + 1
    /\ run_pc' = "crashed"
    /\ pc' = [g \in Groups |-> "none"]
    /\ sm_state' = NoState
    /\ sm_lock' = FALSE
    /\ UNCHANGED <<files, resume_dir, load_in, load_out, marked, result>>
    /\ UNCHANGED notsm

\* main() with --resume dir in a new process, the first one or one after a
\* crash: without dir/results.json it returns 1; else it calls
\* StateManager(state_dir=dir).load_state(); "if not state" returns 1; else
\* the engine is created, its state_manager._state is set to the loaded
\* state and engine.run is called.
Resume(dir) ==
    /\ run_pc \in {"off", "crashed"}
    /\ resume_dir' = dir
    /\ IF files[dir].kind = "absent"
       THEN /\ run_pc' = "rejected"
            /\ UNCHANGED <<load_in, load_out, sm_state>>
       ELSE /\ load_in' = files[dir]
            /\ load_out' = LoadState(files[dir])
            /\ run_pc' = CASE LoadState(files[dir]).kind = "raise" -> "fatal"
                           [] LoadState(files[dir]).kind = "none" -> "rejected"
                           [] OTHER -> "start"
            /\ sm_state' = IF LoadState(files[dir]).kind = "state"
                           THEN LoadState(files[dir])
                           ELSE sm_state
    /\ UNCHANGED <<pc, files, sm_lock, marked, result, crashes>>
    /\ UNCHANGED notsm

\* Before the first process: nothing is in output_base/results.json yet, and
\* the other directory that --resume may name holds no results.json or one
\* that is not a RunState
InitRun ==
    /\ pc = [g \in Groups |-> "none"]
    /\ wait = [g \in Groups |-> 0]
    /\ InitLimiter
    /\ IdleTasks
    /\ EmptyCache
    /\ IdleGroup
    /\ IdlePlan
    /\ IdleAlloc
    /\ files \in {[d \in Dirs |-> IF d = StateFile THEN Absent ELSE c] :
                    c \in {Absent, Partial, NoField}}
    /\ sm_state = NoState
    /\ sm_lock = FALSE
    /\ run_pc = "off"
    /\ resume_dir = "-"
    /\ load_in = Absent
    /\ load_out = NotCalled
    /\ marked = {}
    /\ result = -1
    /\ crashes = 0
    /\ IdleRefs
    /\ IdleSelect
    /\ IdleResume
    /\ IdleResults
    /\ IdleSummary

NextRun ==
    \/ NewRun
    \/ InitStateBegin
    \/ InitStateEnd
    \/ Dispatch
    \/ \E g \in Groups : MarkStartedBegin(g)
    \/ \E g \in Groups : MarkStartedEnd(g)
    \/ \E g \in Groups : GroupRaises(g)
    \/ \E g \in Groups : MarkCompleteBegin(g)
    \/ \E g \in Groups : MarkCompleteEnd(g)
    \/ RunReturn
    \/ Crash
    \/ \E dir \in Dirs : Resume(dir)

SpecRun == InitRun /\ [][NextRun]_vars

\* the groups that a loaded state records as complete
Recorded(st) == {g \in Groups : StrKey(g) \in st.completed}

(***************************************************************************)
(* C1  RateLimiter admission bound: for any number of concurrent callers   *)
(* and any interleaving, at every instant T the admissions whose timestamp *)
(* lies in the trailing window (T - time_window, T] number at most         *)
(* max_requests.                                                           *)
(***************************************************************************)
C1_AdmissionBound == Len(admitted) <= max_requests

\* the window is full and a further caller has been put to sleep
C1_Witness ==
    /\ Len(admitted) = max_requests
    /\ \E t \in Threads : pc[t] = "rl_sleep" /\ wait[t] > 0

(***************************************************************************)
(* C2  Global in-flight bound: at every moment at most SemSize tasks, over *)
(* all groups together, are between acquiring the global semaphore and     *)
(* releasing it (calling the backend, waiting in the rate limiter or       *)
(* sleeping in a retry backoff).                                           *)
(***************************************************************************)
C2_InFlightBound == Cardinality(InFlight) <= SemSize

\* every permit is taken, one holder is waiting (backoff or rate limiter),
\* and a task of another group is kept out
C2_Witness ==
    /\ Cardinality(InFlight) = SemSize
    /\ \E t \in Tasks, u \in Tasks :
          /\ pc[t] \in {"backoff", "rl_sleep"}
          /\ pc[u] = "pending"
          /\ GroupOf(u) # GroupOf(t)

(***************************************************************************)
(* C3  Semaphore permits are conserved: a task holds exactly one permit    *)
(* from before its first rate-limiter admission and backend call, through  *)
(* all of its retries, until it finishes, and gives it back whatever the   *)
(* outcome (success, failure, retries exhausted, unexpected exception);    *)
(* once all tasks have finished every permit is free again.                *)
(***************************************************************************)
C3_PermitsConserved ==
    /\ sem >= 0
    /\ sem + Cardinality(InFlight) = SemSize
    /\ \A t \in Tasks : pc[t] = "pending" => calls[t] = 0 /\ attempt[t] = 0
    /\ (\A t \in Tasks : pc[t] \in Finished) => sem = SemSize

\* all tasks have finished, one by exhausting its retries and one by an
\* exception that escaped
C3_Witness ==
    /\ \A t \in Tasks : pc[t] \in Finished
    /\ \E t \in Tasks : pc[t] = "failed" /\ attempt[t] = max_retries
    /\ \E t \in Tasks : pc[t] = "raised"
    /\ sem = SemSize

(***************************************************************************)
(* C10  Bounded retry: a task sleeps for a retry only after a retryable    *)
(* error with the attempt counter below max_retries; it makes at most      *)
(* max_retries + 1 backend calls, and after the last of them it has        *)
(* finished: Failed, with the error kept, if that call did not succeed.    *)
(***************************************************************************)
C10_BoundedRetry ==
    \A t \in Tasks :
        /\ calls[t] <= max_retries + 1
        /\ pc[t] = "backoff" =>
              IsRetryable(last_error[t]) /\ attempt[t] < max_retries
        /\ calls[t] = max_retries + 1 => pc[t] \in Finished
        /\ pc[t] = "failed" => last_error[t] # None

\* a task has failed after max_retries + 1 calls, the last error retryable
C10_Witness ==
    \E t \in Tasks :
        /\ pc[t] = "failed"
        /\ calls[t] = max_retries + 1
        /\ IsRetryable(last_error[t])

(***************************************************************************)
(* C4  Upload exactly once, as stated: for every path the uploader is      *)
(* invoked at most once during the run, and all callers of _upload_images  *)
(* receive the identical URL for it.                                       *)
(***************************************************************************)
C4_Original ==
    /\ \A p \in Paths : upload_calls[p] <= 1
    /\ \A p \in Paths : ~differ[p]

\* the path whose upload worker w has in progress
UploadingKey(w) == up_paths[w][up_i[w] + 1]

(***************************************************************************)
(* C4  as amended: for every path at most one uploader call returns a      *)
(* result, and the uploader is never invoked for a path that is cached (an *)
(* upload that raised cached nothing, so the next caller invokes the       *)
(* uploader again); a caller is given a URL only after that one successful *)
(* upload, and all callers are given the identical URL, the cached one, as *)
(* long as no _refresh_urls has re-issued the path's URL in between.       *)
(***************************************************************************)
C4_UploadOnce ==
    /\ \A p \in Paths : upload_ok[p] <= 1
    /\ \A p \in Paths : upload_ok[p] = 1 <=> uploaded_urls[p] # NoUrl
    /\ \A w \in Workers :
          pc[w] = "uploading" => uploaded_urls[UploadingKey(w)] = NoUrl
    /\ \A p \in Paths : got[p] # NoUrl => upload_ok[p] = 1
    /\ \A p \in Paths : cur[p] # {} => cur[p] = {uploaded_urls[p]}

\* two workers are inside _upload_images for the same path and both have
\* been given its URL, the second one from the cache: the uploader was
\* called once for it
C4_Witness ==
    \E p \in Paths, w \in Workers, v \in Workers :
        /\ w # v
        /\ upload_calls[p] = 1
        /\ \A u \in {w, v} :
              /\ pc[u] = "up_loop"
              /\ up_i[u] >= 1
              /\ up_paths[u][1] = p
              /\ up_urls[u][1] = Url(MossId(p), 0)

(***************************************************************************)
(* C5  Resume skips completed groups: in an invocation resumed from a      *)
(* state that records group g as complete, run() never dispatches g: no    *)
(* worker of g is submitted, starts or runs.                               *)
(***************************************************************************)
C5_ResumeSkips ==
    (resume_dir # "-" /\ load_out.kind = "state") =>
        \A g \in Recorded(load_out) : pc[g] \in {"none", "skipped"}

(***************************************************************************)
(* C6  Resume aggregate: when a resumed run() returns and every group that *)
(* the loaded state did not record as complete has finished with a         *)
(* GroupResult, RunResult.completed_groups equals total_groups.            *)
(***************************************************************************)
C6_ResumeAggregate ==
    (/\ run_pc = "exit"
     /\ resume_dir # "-"
     /\ Recorded(load_out) # {}
     /\ \A g \in Groups \ Recorded(load_out) : pc[g] = "returned")
    => result = NumGroups

(***************************************************************************)
(* C7  Synchronous persistence: whenever init_state, mark_group_started or *)
(* mark_group_complete has returned and none of them is under way, the     *)
(* state file holds exactly the dumped in-memory RunState; the completion  *)
(* of every group whose mark_group_complete has returned in this process   *)
(* is in memory, and in the file as well unless another write is under     *)
(* way, whatever the order in which the group workers got the lock.        *)
(***************************************************************************)
C7_SynchronousPersistence ==
    /\ (run_pc \in {"dispatch", "collect", "exit"} /\ ~sm_lock) =>
          files[StateFile] = Serialize(sm_state)
    /\ \A g \in Groups :
          pc[g] = "returned" =>
             /\ IntKey(g) \in sm_state.completed
             /\ ~sm_lock => StrKey(g) \in files[StateFile].completed
    /\ \A g \in Groups :
          pc[g] = "running" /\ ~sm_lock => files[StateFile].kind = "json"

\* two group workers have both returned from mark_group_complete, and a
\* third write, by neither of them, cannot be under way: the file holds both
C7_Witness ==
    /\ run_pc = "collect"
    /\ ~sm_lock
    /\ Cardinality(GroupResults) >= 2
    /\ \A g \in GroupResults : StrKey(g) \in files[StateFile].completed

(***************************************************************************)
(* C8  Crash durability: when the process has been killed and load_state   *)
(* then reads the state file, it gives a RunState that records as complete *)
(* every group whose mark_group_complete had returned before.              *)
(***************************************************************************)
C8_CrashDurability ==
    (/\ run_pc \in {"start", "fatal", "rejected"}
     /\ resume_dir = StateFile
     /\ load_out.kind # "notcalled")
    => \A g \in marked : load_out.kind = "state" /\ g \in Recorded(load_out)

(***************************************************************************)
(* C9  State loading distinguishes absent from malformed: load_state gives *)
(* None only for a file that does not exist, and raises for every file     *)
(* that exists and is not a dumped RunState.                               *)
(***************************************************************************)
C9_AbsentOrFatal ==
    load_out.kind # "notcalled" =>
        /\ load_out.kind = "none" => load_in.kind = "absent"
        /\ load_in.kind \in {"partial", "nofield"} => load_out.kind = "raise"

(***************************************************************************)
(* C11  Backoff bounds: whenever a task goes to sleep for a retry, the     *)
(* delay it has drawn is at least retry_delay_base, at most                *)
(* retry_delay_max, and at most three times the delay of its own previous  *)
(* retry, which for its first retry is retry_delay_base.                   *)
(***************************************************************************)
C11_BackoffBounds ==
    [][\A t \in Tasks :
          (pc[t] = "call" /\ pc'[t] = "backoff") =>
              /\ retry_delay_base <= last_delay'[t]
              /\ last_delay'[t] <= retry_delay_max
              /\ last_delay'[t] <= 3 * last_delay[t]
              /\ attempt[t] = 0 => last_delay[t] = retry_delay_base]_vars

\* a task sleeps for its second retry with the delay at the cap, after
\* another task has gone through retries of its own and returned
C11_Witness ==
    \E t \in Tasks, u \in Tasks :
        /\ pc[t] = "backoff"
        /\ attempt[t] = 1
        /\ last_delay[t] = retry_delay_max
        /\ u # t
        /\ pc[u] \in Finished
        /\ attempt[u] >= 1

(***************************************************************************)
(* C12  A non-retryable error never triggers a sleep: once a call of a     *)
(* task has raised an error whose text holds none of the retryable marks,  *)
(* the task is Failed; it is not in a backoff sleep, in the rate limiter   *)
(* or in another backend call.                                             *)
(***************************************************************************)
C12_NoSleepAfterFatal ==
    \A t \in Tasks :
        (last_raised[t] # None /\ MarksIn(last_raised[t]) \cap RetryableMarks = {})
        => pc[t] = "failed"

\* the first call of a task raised the authentication error: the task has
\* failed after that one call, with all its retries unused
C12_Witness ==
    \E t \in Tasks :
        /\ last_raised[t] = Err401
        /\ pc[t] = "failed"
        /\ calls[t] = 1
        /\ attempt[t] < max_retries

(***************************************************************************)
(* C13  Last error surfaced: the error that a Failed task returns in its   *)
(* ImageResult is the error raised by the last call it made, and is not    *)
(* None.                                                                   *)
(***************************************************************************)
C13_LastErrorSurfaced ==
    \A t \in Tasks :
        pc[t] = "failed" =>
            /\ last_error[t] # None
            /\ last_error[t] = last_raised[t]

\* a task failed on a non-retryable error in a later attempt, the attempts
\* before it having raised retryable errors
C13_Witness ==
    \E t \in Tasks :
        /\ pc[t] = "failed"
        /\ attempt[t] >= 1
        /\ last_error[t] = Err401

(***************************************************************************)
(* C14  Download failure is not retried, as stated: once the download of   *)
(* the result of a successful generation has failed, the task is Failed    *)
(* and issues no further generation request.                               *)
(***************************************************************************)
C14_DownloadNotRetried ==
    \A t \in Tasks : last_raised[t] = ErrDownload => pc[t] = "failed"

(***************************************************************************)
(* run_group (engine.py:834-1108) as execute_group runs it for every       *)
(* pending group at once (engine.py:753-801), for a template that          *)
(* generates images.  generate_single is one step here: its future ends    *)
(* with a successful ImageResult, a failed one, or an exception.           *)
(*                                                                         *)
(*   idle        no run                                                    *)
(*   prepare     in the loop that prepares the tasks (engine.py:962-1007)  *)
(*   generating  in _run_concurrent_generation_v2                          *)
(*   recorded    mark_group_complete has returned and execute_group has    *)
(*               returned the GroupResult                                  *)
(*   raised      an exception has left run_group: execute_group returns    *)
(*               None                                                      *)
(***************************************************************************)

\* what a future of generate_single ends with
Outcomes == {"success", "failed", "raised"}

Collected_uncaught(o) == o

\* image_index, result = future.result(); except Exception: a failed
\* ImageResult with error=str(e)
Collected(o) == IF o = "raised" THEN "failed" ELSE o

\* one turn of the preparation loop: _upload_images and _refresh_urls return
\* and the task is appended to tasks
PrepareTask(g) ==
    /\ g_pc[g] = "prepare"
    /\ tasks[g] < images_per_group
    /\ tasks' = [tasks EXCEPT ![g] = @ + 1]
    /\ UNCHANGED <<g_pc, future, images>>
    /\ UNCHANGED notgroup

\* _upload_images or _refresh_urls raises (the uploader failed): nothing in
\* run_group catches it, and execute_group's "except Exception" returns None
UploaderRaises(g) ==
    /\ g_pc[g] = "prepare"
    /\ tasks[g] < images_per_group
    /\ g_pc' = [g_pc EXCEPT ![g] = "raised"]
    /\ UNCHANGED <<tasks, future, images>>
    /\ UNCHANGED notgroup

\* futures = {executor.submit(generate_single, task): task for task in tasks}
Submit(g) ==
    /\ g_pc[g] = "prepare"
    /\ tasks[g] = images_per_group
    /\ g_pc' = [g_pc EXCEPT ![g] = "generating"]
    /\ future' = [future EXCEPT ![g] = [i \in Images |-> "running"]]
    /\ UNCHANGED <<tasks, images>>
    /\ UNCHANGED notgroup

\* generate_single(task i) of group g ends
TaskEnds(g, i, o) ==
    /\ future[g][i] = "running"
    /\ future' = [future EXCEPT ![g][i] = o]
    /\ UNCHANGED <<g_pc, tasks, images>>
    /\ UNCHANGED notgroup

\* as_completed has given every future and the executor is left:
\* [results[i] for i in sorted(results.keys())] becomes GroupResult.images,
\* then save_group_result and mark_group_complete
Collect(g) ==
    /\ g_pc[g] = "generating"
    /\ \A i \in Images : future[g][i] \in Outcomes
    /\ images' = [images EXCEPT ![g] = [i \in Images |-> Collected(future[g][i])]]
    /\ g_pc' = [g_pc EXCEPT ![g] = "recorded"]
    /\ UNCHANGED <<tasks, future>>
    /\ UNCHANGED notgroup

\* every group of the run has been submitted to the executor of run()
InitGroup ==
    /\ pc = [t \in Tasks |-> "pending"]
    /\ wait = [t \in Tasks |-> 0]
    /\ InitLimiter
    /\ IdleTasks
    /\ EmptyCache
    /\ IdleRun
    /\ g_pc = [g \in Groups |-> "prepare"]
    /\ tasks = [g \in Groups |-> 0]
    /\ future = [g \in Groups |-> [i \in Images |-> "none"]]
    /\ images = [g \in Groups |-> <<>>]
    /\ IdlePlan
    /\ IdleAlloc
    /\ IdleRefs
    /\ IdleSelect
    /\ IdleResume
    /\ IdleResults
    /\ IdleSummary

NextGroup ==
    \/ \E g \in Groups : PrepareTask(g)
    \/ \E g \in Groups : UploaderRaises(g)
    \/ \E g \in Groups : Submit(g)
    \/ \E g \in Groups, i \in Images, o \in Outcomes : TaskEnds(g, i, o)
    \/ \E g \in Groups : Collect(g)

SpecGroup == InitGroup /\ [][NextGroup]_vars

(***************************************************************************)
(* C15  Task failure isolation: a recorded group has exactly one           *)
(* ImageResult per task, successful exactly for the tasks whose            *)
(* generate_single ended successfully, whatever the other tasks of the     *)
(* group and the other groups ended with; and no group is lost after its   *)
(* tasks were submitted: an exception leaves run_group only before that.   *)
(***************************************************************************)
C15_TaskFailureIsolation ==
    \A g \in Groups :
        /\ g_pc[g] = "recorded" =>
              /\ DOMAIN images[g] = Images
              /\ \A i \in Images :
                    /\ images[g][i] \in {"success", "failed"}
                    /\ images[g][i] = "success" <=> future[g][i] = "success"
        /\ g_pc[g] = "raised" => \A i \in Images : future[g][i] = "none"

\* a group is recorded with a task that ended in an exception and a
\* sibling that succeeded, next to another
\* recorded group
C15_Witness ==
    \E g \in Groups, h \in Groups :
        /\ g # h
        /\ g_pc[g] = "recorded"
        /\ g_pc[h] = "recorded"
        /\ \E i \in Images, j \in Images :
              /\ future[g][i] = "raised"
              /\ images[g][i] = "failed"
              /\ images[g][j] = "success"
        /\ \E i \in Images : images[h][i] = "success"

(***************************************************************************)
(* C16  Upload failure becomes a task failure, as stated: a failure of     *)
(* the uploader for an asset of one task of group g leaves g with a        *)
(* GroupResult that is produced and recorded, so that no group ends        *)
(* without one.                                                            *)
(***************************************************************************)
C16_UploadFailureIsTaskFailure ==
    \A g \in Groups : g_pc[g] # "raised"

(***************************************************************************)
(* run() from its first line to the RunResult (engine.py:458-832), with    *)
(* run_group reduced to what decides whether it raises.  The main thread   *)
(* is at run_pc, group g at pc[g]:                                         *)
(*                                                                         *)
(*   run_pc  start, confirm, references, init, prompts, dispatch, collect, *)
(*           exit (a RunResult is returned), fatal (run() has raised)      *)
(*   pc[g]   none, pending, running, returned, raised                      *)
(***************************************************************************)

\* validate_config (config.py:314-316) accepts these generation targets
ValidTargets == {"text", "image", "both"}

\* _get_generation_flags: generation_target in ('image_only', 'both')
ShouldGenerateImages(cfg) == cfg.generation_target \in {"image_only", "both"}

\* the warnings list of run() is not empty (engine.py:514-563): every check
\* that appends to it is under should_generate_images, and in transfer mode
\* the reference images are compared with group_count
Warnings(cfg) ==
    /\ ShouldGenerateImages(cfg)
    /\ \/ cfg.short
       \/ cfg.mode = "subject_transfer" /\ Len(cfg.reference_images) < NumGroups

\* math.ceil(a / b) for whole a >= 0 and b > 0: the quotient a / b of two
\* whole numbers of this size is either whole, and then exact as a float, or
\* at least 1 / b away from a whole number
Ceil(a, b) == (a + b - 1) \div b

CoverageGroups_floor(specified_image, specified_coverage, group_count) ==
    IF specified_image # NoId /\ specified_coverage > 0
    THEN (group_count * specified_coverage) \div 100
    ELSE 0

\* coverage_groups = max(1, math.ceil(group_count * specified_coverage / 100))
\* if specified_image and specified_coverage > 0 else 0
CoverageGroups(specified_image, specified_coverage, group_count) ==
    IF specified_image # NoId /\ specified_coverage > 0
    THEN LET c == Ceil(group_count * specified_coverage, 100)
         IN  IF c > 1 THEN c ELSE 1
    ELSE 0

\* ordered_refs: the references other than the specified one, in their order
OrderedRefs(reference_images, specified_image) ==
    SelectSeq(reference_images, LAMBDA r : r # specified_image)

RefIndex_position(i, specified_image, coverage_groups) == i

\* ref_index when the loop is at group i (counted from 0): the groups before
\* it that took the else branch
RefIndex(i, specified_image, coverage_groups) ==
    Cardinality({j \in 0..(i - 1) : ~(specified_image # NoId /\ j < coverage_groups)})

\* _allocate_references_for_groups: result[i] is the specified image for
\* i < coverage_groups, else the next of ordered_refs, starting again when
\* they are used up, else (no other reference) the specified image or None
AllocateReferencesForGroups(reference_images, group_count, specified_image, specified_coverage) ==
    LET coverage_groups == CoverageGroups(specified_image, specified_coverage, group_count)
        ordered_refs == OrderedRefs(reference_images, specified_image)
    IN  [n \in 1..group_count |->
            LET i == n - 1 IN
            IF specified_image # NoId /\ i < coverage_groups
            THEN specified_image
            ELSE IF ordered_refs # <<>>
                 THEN ordered_refs[(RefIndex(i, specified_image, coverage_groups)
                                      % Len(ordered_refs)) + 1]
                 ELSE specified_image]

\* _allocate_prompts_for_groups raises GeneratorError: in either mode the
\* specified prompt id is looked up first, and run() calls it only under
\* should_generate_images
PromptsRaise(cfg) == ShouldGenerateImages(cfg) /\ cfg.specified = "unknown"

\* group_reference_image of run_group(g): the pre-allocated reference of
\* the group, None without one
GroupReference(g) ==
    IF config.mode = "subject_transfer" /\ g < Len(reference_assignments)
    THEN reference_assignments[g + 1]
    ELSE NoId

\* run_group raises GeneratorError: a transfer group without a reference
NoReference(g) ==
    /\ ShouldGenerateImages(config)
    /\ config.mode = "subject_transfer"
    /\ GroupReference(g) = NoId

\* errors = self.config_manager.validate_config(); if errors: raise
Validate ==
    /\ run_pc = "start"
    /\ run_pc' = IF config.generation_target \in ValidTargets THEN "confirm" ELSE "fatal"
    /\ UNCHANGED <<pc, result, sm_state, files, marked, reference_assignments>>
    /\ UNCHANGED notplan

\* if warnings: ... if not auto_confirm: input(); the answer 'n' returns a
\* RunResult with completed_groups=0; any other answer goes on, and so does
\* "except EOFError", which only logs a warning
Confirm ==
    /\ run_pc = "confirm"
    /\ IF Warnings(config) /\ config.operator = "n"
       THEN run_pc' = "exit" /\ result' = 0
       ELSE run_pc' = "references" /\ result' = result
    /\ UNCHANGED <<pc, sm_state, files, marked, reference_assignments>>
    /\ UNCHANGED notplan

\* the pre-allocation of the references (engine.py:646-656), then
\* "if dry_run: return RunResult(completed_groups=0)"
AllocateReferences ==
    /\ run_pc = "references"
    /\ reference_assignments' =
          IF /\ ShouldGenerateImages(config)
             /\ config.mode = "subject_transfer"
             /\ config.reference_images # <<>>
          THEN AllocateReferencesForGroups(config.reference_images, NumGroups, NoId, 100)
          ELSE reference_assignments
    /\ IF config.dry_run
       THEN run_pc' = "exit" /\ result' = 0
       ELSE run_pc' = "init" /\ result' = result
    /\ UNCHANGED <<pc, sm_state, files, marked>>
    /\ UNCHANGED notplan

\* create_run_directory and state_manager.init_state
CreateRun ==
    /\ run_pc = "init"
    /\ sm_state' = RunState({}, NoGroup)
    /\ files' = Written(Dump(files[StateFile], RunState({}, NoGroup)))
    /\ run_pc' = "prompts"
    /\ UNCHANGED <<pc, result, marked, reference_assignments>>
    /\ UNCHANGED notplan

\* if should_generate_images: self._prompt_assignments =
\* self._allocate_prompts_for_groups(...)
AllocatePrompts ==
    /\ run_pc = "prompts"
    /\ run_pc' = IF PromptsRaise(config) THEN "fatal" ELSE "dispatch"
    /\ UNCHANGED <<pc, result, sm_state, files, marked, reference_assignments>>
    /\ UNCHANGED notplan

\* pending_groups, then executor.submit(execute_group, g) for each of them
SubmitGroups ==
    /\ run_pc = "dispatch"
    /\ pc' = [g \in Groups |->
                IF IsGroupComplete(sm_state, g) THEN "skipped" ELSE "pending"]
    /\ run_pc' = "collect"
    /\ UNCHANGED <<result, sm_state, files, marked, reference_assignments>>
    /\ UNCHANGED notplan

\* run_group(g) starts: mark_group_started(group_index)
GroupStarts(g) ==
    /\ run_pc = "collect"
    /\ pc[g] = "pending"
    /\ sm_state' = [sm_state EXCEPT !.current = g]
    /\ files' = Written(Dump(files[StateFile], [sm_state EXCEPT !.current = g]))
    /\ pc' = [pc EXCEPT ![g] = "running"]
    /\ UNCHANGED <<run_pc, result, marked, reference_assignments>>
    /\ UNCHANGED notplan

\* run_group(g) ends: it raises for a transfer group without a reference
\* (engine.py:922-925) and can raise in the uploads; else it builds the
\* GroupResult and calls mark_group_complete
GroupEnds(g, o) ==
    /\ run_pc = "collect"
    /\ pc[g] = "running"
    /\ NoReference(g) => o = "raised"
    /\ pc' = [pc EXCEPT ![g] = o]
    /\ IF o = "returned"
       THEN /\ sm_state' = [sm_state EXCEPT !.completed = @ \cup {IntKey(g)},
                                            !.current = NoGroup]
            /\ files' = Written(Dump(files[StateFile], sm_state'))
            /\ marked' = marked \cup {g}
       ELSE UNCHANGED <<sm_state, files, marked>>
    /\ UNCHANGED <<run_pc, result, reference_assignments>>
    /\ UNCHANGED notplan

\* every future is done: RunResult(completed_groups=len(group_results))
Summary ==
    /\ run_pc = "collect"
    /\ \A g \in Groups : pc[g] \in Settled
    /\ result' = Cardinality(GroupResults)
    /\ run_pc' = "exit"
    /\ UNCHANGED <<pc, sm_state, files, marked, reference_assignments>>
    /\ UNCHANGED notplan

\* the templates, directories and invocations that run() is given
Configs ==
    [mode : {"scene_generation", "subject_transfer"},
     generation_target : {"both", "image", "image_only"},
     dry_run : BOOLEAN,
     reference_images : {<<>>, <<NumPaths>>},
     specified : {"none", "known", "unknown"},
     short : BOOLEAN,
     operator : {"auto", "y", "n", "eof"}]

\* engine.run(dry_run, auto_confirm) is called on an engine just constructed
InitPlan ==
    /\ pc = [g \in Groups |-> "none"]
    /\ wait = [g \in Groups |-> 0]
    /\ InitLimiter
    /\ IdleTasks
    /\ EmptyCache
    /\ IdleGroup
    /\ files = [d \in Dirs |-> Absent]
    /\ sm_state = NoState
    /\ sm_lock = FALSE
    /\ run_pc = "start"
    /\ resume_dir = "-"
    /\ load_in = Absent
    /\ load_out = NotCalled
    /\ marked = {}
    /\ result = -1
    /\ crashes = 0
    /\ config \in Configs
    /\ IdleAlloc
    /\ reference_assignments = <<>>
    /\ IdleRefs
    /\ IdleSelect
    /\ IdleResume
    /\ IdleResults
    /\ IdleSummary

NextPlan ==
    \/ Validate
    \/ Confirm
    \/ AllocateReferences
    \/ CreateRun
    \/ AllocatePrompts
    \/ SubmitGroups
    \/ \E g \in Groups : GroupStarts(g)
    \/ \E g \in Groups, o \in {"returned", "raised"} : GroupEnds(g, o)
    \/ Summary

SpecPlan == InitPlan /\ [][NextPlan]_vars

\* run() goes on to generate images: the configuration is valid, it is no
\* dry run and the operator does not decline
Proceeds(cfg) ==
    /\ cfg.generation_target \in ValidTargets
    /\ ~cfg.dry_run
    /\ cfg.operator # "n"

(***************************************************************************)
(* C17  Allocation errors are fatal before dispatch, as stated: in         *)
(* transfer mode with no reference image, a run that is to generate        *)
(* images (and is neither a dry run nor declined by the operator) starts   *)
(* no group and returns no RunResult.                                      *)
(***************************************************************************)
C17_FatalBeforeDispatch ==
    (/\ config.mode = "subject_transfer"
     /\ config.reference_images = <<>>
     /\ ShouldGenerateImages(config)
     /\ Proceeds(config))
    => /\ \A g \in Groups : pc[g] \in {"none", "pending"}
       /\ run_pc # "exit"

(***************************************************************************)
(* C18  An unknown specified prompt id fails the whole run, as stated:     *)
(* whenever the template specifies a prompt id that is not in the pool,    *)
(* a run with a valid configuration that is neither a dry run nor          *)
(* declined by the operator starts no group and returns no RunResult.      *)
(***************************************************************************)
C18_UnknownPromptFatal ==
    (config.specified = "unknown" /\ Proceeds(config))
    => /\ \A g \in Groups : pc[g] \in {"none", "pending"}
       /\ run_pc # "exit"

(***************************************************************************)
(* _allocate_scene_prompts (engine.py:253-317), one turn of its loop per   *)
(* step.  A prompt is its id; the pool prompts holds the ids 1..n, and a   *)
(* specified id above n is one that find_prompt_by_id does not find.       *)
(*                                                                         *)
(*   alloc_pc   lookup (the specified ids are looked up), loop, returned,  *)
(*              raised (GeneratorError)                                    *)
(***************************************************************************)

\* the sequences over S of length at most n
SeqsUpTo(S, n) == UNION {[1..k -> S] : k \in 0..n}

\* find_prompt_by_id(prompts, prompt_id) finds a prompt
Found(prompts, prompt_id) == prompt_id \in prompts

\* previous = result[-1] if result else None
Previous(res) == IF res = <<>> THEN NoId ELSE res[Len(res)]

Available_all(prompts, used) == prompts

\* available = [p for p in prompts if p.id not in used_prompts]
Available(prompts, used) == prompts \ used

\* The values that "selected" can take for group i (counted from 0): the
\* specified prompt of that position; else random.choice among the unused
\* prompts other than previous; else, every prompt used, among the prompts
\* other than previous; None only for an empty pool.
Selected(i) ==
    LET prompts == scene.prompts
        specified == scene.specified_prompts
        previous == Previous(plan)
        available == Available(prompts, used_prompts)
    IN  IF i < Len(specified) THEN {specified[i + 1]}
        ELSE IF available # {}
             THEN IF previous # NoId
                  THEN IF available \ {previous} # {}
                       THEN available \ {previous}
                       ELSE available
                  ELSE available
             ELSE IF previous # NoId /\ Cardinality(prompts) > 1
                  THEN prompts \ {previous}
                  ELSE IF prompts # {} THEN prompts ELSE {NoId}

\* the loop over template_cfg.scene_prompts.specified_prompts: an id that is
\* not found raises GeneratorError
LookupSpecified ==
    /\ alloc_pc = "lookup"
    /\ alloc_pc' = IF \A k \in DOMAIN scene.specified_prompts :
                          Found(scene.prompts, scene.specified_prompts[k])
                   THEN "loop"
                   ELSE "raised"
    /\ UNCHANGED <<scene, plan, used_prompts>>
    /\ UNCHANGED notalloc

\* one turn of "for i in range(group_count)": result.append(selected) and
\* used_prompts.add(selected.id), or result.append(None) for an empty pool
AllocateGroup(selected) ==
    /\ alloc_pc = "loop"
    /\ Len(plan) < scene.group_count
    /\ selected \in Selected(Len(plan))
    /\ plan' = Append(plan, selected)
    /\ used_prompts' = IF selected # NoId THEN used_prompts \cup {selected}
                       ELSE used_prompts
    /\ UNCHANGED <<scene, alloc_pc>>
    /\ UNCHANGED notalloc

\* return result
AllocReturn ==
    /\ alloc_pc = "loop"
    /\ Len(plan) = scene.group_count
    /\ alloc_pc' = "returned"
    /\ UNCHANGED <<scene, plan, used_prompts>>
    /\ UNCHANGED notalloc

\* the pools, lists of specified ids and group counts of a call
Scenes ==
    [prompts : {1..n : n \in 0..NumPrompts},
     specified_prompts : SeqsUpTo(1..(NumPrompts + 1), MaxSpecified),
     group_count : 1..MaxGroupCount]

InitAlloc ==
    /\ pc = [t \in Tasks |-> "pending"]
    /\ wait = [t \in Tasks |-> 0]
    /\ InitLimiter
    /\ IdleTasks
    /\ EmptyCache
    /\ IdleGroup
    /\ IdlePlan
    /\ IdleRun
    /\ scene \in Scenes
    /\ alloc_pc = "lookup"
    /\ plan = <<>>
    /\ used_prompts = {}
    /\ IdleRefs
    /\ IdleSelect
    /\ IdleResume
    /\ IdleResults
    /\ IdleSummary

NextAlloc ==
    \/ LookupSpecified
    \/ \E selected \in 0..NumPrompts : AllocateGroup(selected)
    \/ AllocReturn

SpecAlloc == InitAlloc /\ [][NextAlloc]_vars

\* the prompts given to the groups before position i of the plan
Earlier(i) == {plan[j] : j \in 1..(i - 1)}

(***************************************************************************)
(* C19  Adjacent-group constraint, as stated: with at least two prompts    *)
(* in the pool, no group of the plan has the prompt of the group just      *)
(* before it.                                                              *)
(***************************************************************************)
C19_AdjacentDiffer ==
    Cardinality(scene.prompts) >= 2 =>
        \A i \in 1..(Len(plan) - 1) : plan[i] # plan[i + 1]

(***************************************************************************)
(* C20  Per-group-unique prompts: the first groups have the specified      *)
(* prompts in their order; a later group has a prompt that no earlier      *)
(* group has whenever the pool still holds one, so that a prompt is used   *)
(* again only when every prompt of the pool has been assigned; and with    *)
(* group_count at most the pool size and distinct specified ids all        *)
(* groups have pairwise distinct prompts.                                  *)
(***************************************************************************)
C20_UniqueWhilePossible ==
    LET specified == scene.specified_prompts IN
    /\ \A i \in DOMAIN plan :
          /\ i <= Len(specified) => plan[i] = specified[i]
          /\ (i > Len(specified) /\ scene.prompts \ Earlier(i) # {})
                => plan[i] \in scene.prompts \ Earlier(i)
    /\ (/\ scene.group_count <= Cardinality(scene.prompts)
        /\ \A j, k \in DOMAIN specified : j # k => specified[j] # specified[k])
       => \A j, k \in DOMAIN plan : j # k => plan[j] # plan[k]

\* a plan for as many groups as the pool has prompts, at least three, is
\* returned: a specified prompt first, then every other prompt once
C20_Witness ==
    /\ alloc_pc = "returned"
    /\ Len(scene.specified_prompts) = 1
    /\ scene.group_count = Cardinality(scene.prompts)
    /\ scene.group_count >= 3
    /\ {plan[i] : i \in DOMAIN plan} = scene.prompts

(***************************************************************************)
(* _allocate_references_for_groups (engine.py:353-412) on the arguments    *)
(* that run() can give it (engine.py:619-656): a list of references that   *)
(* is not empty, in the order of list_images; no specified image or one    *)
(* that find_image_by_path found in that list; the coverage percent of     *)
(* the template.  A reference is its position in the list.                 *)
(***************************************************************************)

\* reference_images.specified_coverage of the template (config.py:199)
Coverages == {0, 1, 34, 50, 100, 150}

RefCalls ==
    UNION {[reference_images : {[k \in 1..n |-> k]},
            group_count : 1..MaxRefGroups,
            specified_image : 0..n,
            specified_coverage : Coverages] : n \in 1..NumRefs}

\* run() calls self._allocate_references_for_groups(...)
CallAllocateReferences ==
    /\ ref_pc = "call"
    /\ ref_plan' = AllocateReferencesForGroups(ref_args.reference_images,
                                               ref_args.group_count,
                                               ref_args.specified_image,
                                               ref_args.specified_coverage)
    /\ ref_pc' = "returned"
    /\ UNCHANGED ref_args
    /\ UNCHANGED notrefs

InitRefs ==
    /\ pc = [t \in Tasks |-> "pending"]
    /\ wait = [t \in Tasks |-> 0]
    /\ InitLimiter
    /\ IdleTasks
    /\ EmptyCache
    /\ IdleGroup
    /\ IdlePlan
    /\ IdleAlloc
    /\ IdleRun
    /\ ref_args \in RefCalls
    /\ ref_pc = "call"
    /\ ref_plan = <<>>
    /\ IdleSelect
    /\ IdleResume
    /\ IdleResults
    /\ IdleSummary

NextRefs == CallAllocateReferences

SpecRefs == InitRefs /\ [][NextRefs]_vars

\* the groups (counted from 1) that the plan gives the specified image
PinnedGroups == {n \in DOMAIN ref_plan : ref_plan[n] = ref_args.specified_image}

\* the pool holds a reference other than the specified one
HasOthers == \E k \in DOMAIN ref_args.reference_images :
                 ref_args.reference_images[k] # ref_args.specified_image

C22_AtLeastOneCovered ==
    (ref_pc = "returned" /\ ref_args.specified_image # NoId /\ ref_args.group_count >= 1) =>
        PinnedGroups # {}

\* the references other than the specified one, in ascending order
Others == {r \in 1..Len(ref_args.reference_images) : r # ref_args.specified_image}

\* the groups that do not get the specified reference
UnpinnedGroups == DOMAIN ref_plan \ PinnedGroups

(***************************************************************************)
(* C23  Reference assets in ascending order with wraparound: the groups    *)
(* that do not get the specified reference get the other references of     *)
(* the pool in ascending order, one per group, starting again from the     *)
(* first once they are used up; with no specified reference group i        *)
(* (counted from 0) gets reference i mod pool size.                        *)
(***************************************************************************)
C23_AscendingWraparound ==
    ref_pc = "returned" =>
        /\ \A n \in UnpinnedGroups :
              LET j == Cardinality({m \in UnpinnedGroups : m < n})
                  k == j % Cardinality(Others)
              IN  /\ ref_plan[n] \in Others
                  /\ Cardinality({q \in Others : q < ref_plan[n]}) = k
        /\ ref_args.specified_image = NoId =>
              \A i \in 0..(ref_args.group_count - 1) :
                  ref_plan[i + 1] =
                      ref_args.reference_images[(i % Len(ref_args.reference_images)) + 1]

\* reference 1 of three is specified with coverage 34 for five groups: the
\* three later groups get references 2, 3 and 2 again
C23_Witness ==
    /\ ref_pc = "returned"
    /\ ref_args.specified_image = 1
    /\ ref_plan = <<1, 1, 2, 3, 2>>

(***************************************************************************)
(* run_group (engine.py:834-1108) of a template that generates images,     *)
(* followed from its choice of products to its GroupResult.  A product is  *)
(* its position in product_images; list_images gives every file once, and *)
(* validate_specified_images gives specified images that are in the pool   *)
(* and differ from each other (image_selector.py:104-126).                 *)
(***************************************************************************)

\* the elements of a list
Elements(seq) == {seq[i] : i \in DOMAIN seq}

\* the lists of at most n elements of S that name no element twice
DistinctSeqs(S, n) ==
    UNION {{q \in [1..k -> S] : \A i, j \in 1..k : i # j => q[i] # q[j]} : k \in 0..n}

\* the first loop: the specified products in their order, until the group
\* has images_per_group tasks, leaving out one that is already used
RECURSIVE TakeSpecified(_, _, _)
TakeSpecified(specified, taken, per_group) ==
    IF specified = <<>> \/ Len(taken) >= per_group
    THEN taken
    ELSE TakeSpecified(Tail(specified),
                       IF Head(specified) \in Elements(taken) THEN taken
                       ELSE Append(taken, Head(specified)),
                       per_group)

AvailableProds_all(product_images, used) == product_images

\* available_prods = [p for p in product_images if str(p) not in used_products_in_group]
AvailableProds(product_images, used) ==
    SelectSeq(product_images, LAMBDA p : p \notin used)

\* what random.shuffle can make of a list
Shuffles(seq) == {q \in [DOMAIN seq -> Elements(seq)] : Elements(q) = Elements(seq)}

\* the second loop: the shuffled products in their order, until the group
\* has images_per_group tasks
RECURSIVE TakeAvailable(_, _, _)
TakeAvailable(shuffled, taken, per_group) ==
    IF shuffled = <<>> \/ Len(taken) >= per_group
    THEN taken
    ELSE TakeAvailable(Tail(shuffled), Append(taken, Head(shuffled)), per_group)

\* the calls of run_group: the mode, the pool, the specified products that
\* run() hands to this group, the parsed images_per_group and the reference
\* that the plan has for the group (NoId: none)
SelectCalls ==
    UNION {[mode : {"scene_generation", "subject_transfer"},
            product_images : {[k \in 1..n |-> k]},
            specified_product_images : DistinctSeqs(1..n, MaxPinned),
            images_per_group : 1..MaxPerGroup,
            group_reference_image : {NoId, 1}] : n \in 0..NumProducts}

\* subject_transfer and no reference for the group: raise GeneratorError
NoReferenceRaises ==
    /\ sel_pc = "call"
    /\ sel_args.mode = "subject_transfer"
    /\ sel_args.group_reference_image = NoId
    /\ sel_pc' = "raised"
    /\ sel_error' = "GeneratorError"
    /\ UNCHANGED <<sel_args, group_tasks, sel_images, sel_complete>>
    /\ UNCHANGED notsel

\* the two loops over the products, the same in both modes
SelectProducts ==
    /\ sel_pc = "call"
    /\ sel_args.mode = "subject_transfer" => sel_args.group_reference_image # NoId
    /\ LET first == TakeSpecified(sel_args.specified_product_images, <<>>,
                                  sel_args.images_per_group)
       IN  \E shuffled \in Shuffles(AvailableProds(sel_args.product_images, Elements(first))) :
               group_tasks' = TakeAvailable(shuffled, first, sel_args.images_per_group)
    /\ sel_pc' = "selected"
    /\ UNCHANGED <<sel_args, sel_images, sel_error, sel_complete>>
    /\ UNCHANGED notsel

\* the preparation loop: _upload_images or _refresh_urls of a task raises
\* and nothing in run_group catches it
SelectUploaderRaises ==
    /\ sel_pc = "selected"
    /\ group_tasks # <<>>
    /\ sel_pc' = "raised"
    /\ sel_error' = "UploadError"
    /\ UNCHANGED <<sel_args, group_tasks, sel_images, sel_complete>>
    /\ UNCHANGED notsel

\* _run_concurrent_generation_v2 with no task: max_workers = len(tasks) is 0
\* and ThreadPoolExecutor(max_workers=0) raises ValueError
ExecutorRaises ==
    /\ sel_pc = "selected"
    /\ group_tasks = <<>>
    /\ sel_pc' = "raised"
    /\ sel_error' = "ValueError"
    /\ UNCHANGED <<sel_args, group_tasks, sel_images, sel_complete>>
    /\ UNCHANGED notsel

\* the tasks are prepared and _run_concurrent_generation_v2 returns one
\* result for each of them, in the order of their indexes
RunGeneration ==
    /\ sel_pc = "selected"
    /\ group_tasks # <<>>
    /\ sel_images' = [i \in DOMAIN group_tasks |-> i]
    /\ sel_pc' = "generated"
    /\ UNCHANGED <<sel_args, group_tasks, sel_error, sel_complete>>
    /\ UNCHANGED notsel

\* GroupResult(...), save_group_result, mark_group_complete, return
ReturnGroupResult ==
    /\ sel_pc = "generated"
    /\ sel_complete' = TRUE
    /\ sel_pc' = "returned"
    /\ UNCHANGED <<sel_args, group_tasks, sel_images, sel_error>>
    /\ UNCHANGED notsel

InitSelect ==
    /\ pc = [t \in Tasks |-> "pending"]
    /\ wait = [t \in Tasks |-> 0]
    /\ InitLimiter
    /\ IdleTasks
    /\ EmptyCache
    /\ IdleGroup
    /\ IdlePlan
    /\ IdleAlloc
    /\ IdleRun
    /\ IdleRefs
    /\ sel_args \in SelectCalls
    /\ sel_pc = "call"
    /\ group_tasks = <<>>
    /\ sel_images = <<>>
    /\ sel_error = None
    /\ sel_complete = FALSE
    /\ IdleResume
    /\ IdleResults
    /\ IdleSummary

NextSelect ==
    \/ NoReferenceRaises
    \/ SelectProducts
    \/ SelectUploaderRaises
    \/ ExecutorRaises
    \/ RunGeneration
    \/ ReturnGroupResult

SpecSelect == InitSelect /\ [][NextSelect]_vars

\* run_group is past its two loops over the products
ProductsChosen == sel_pc \in {"selected", "generated", "returned"}

\* the smaller of two numbers
Smaller(a, b) == IF a < b THEN a ELSE b

(***************************************************************************)
(* C24  Within-group selection without replacement: in both modes the      *)
(* products of one group's tasks differ from each other, the specified     *)
(* products of the group are taken in their order before any other         *)
(* product, and the group has min(images_per_group, number of products in  *)
(* the pool) tasks.                                                        *)
(***************************************************************************)
C24_WithoutReplacement ==
    ProductsChosen =>
        LET specified == sel_args.specified_product_images
            k == Smaller(Len(specified), sel_args.images_per_group)
        IN  /\ \A i, j \in DOMAIN group_tasks : i # j => group_tasks[i] # group_tasks[j]
            /\ Len(group_tasks) >= k
            /\ \A i \in 1..k : group_tasks[i] = specified[i]
            /\ \A i \in DOMAIN group_tasks : i > k => group_tasks[i] \notin Elements(specified)
            /\ Len(group_tasks) = Smaller(sel_args.images_per_group,
                                          Len(sel_args.product_images))

\* product 2 is specified in a pool of three for a group of three images: it
\* is the first task, and the other two products follow in shuffled order
C24_Witness ==
    /\ ProductsChosen
    /\ sel_args.specified_product_images = <<2>>
    /\ group_tasks = <<2, 3, 1>>

\* run_group has returned its GroupResult or an exception has left it
GroupEnded == sel_pc \in {"returned", "raised"}

(***************************************************************************)
(* C25  Too-small pool is a warning, not an error: for every product pool  *)
(* smaller than images_per_group, the empty pool included, run_group       *)
(* raises no error, gives a GroupResult with as many images as the pool    *)
(* has products, and the group is recorded complete.  Stated for a group   *)
(* that has its reference and whose uploads return.  With an empty pool    *)
(* the group has no task and ThreadPoolExecutor(max_workers=0) raises      *)
(* ValueError.                                                             *)
(***************************************************************************)
C25_SmallPoolCompletes ==
    (/\ GroupEnded
     /\ Len(sel_args.product_images) < sel_args.images_per_group
     /\ sel_args.mode = "subject_transfer" => sel_args.group_reference_image # NoId
     /\ sel_error # "UploadError") =>
        /\ sel_pc = "returned"
        /\ sel_error = None
        /\ Len(sel_images) = Len(sel_args.product_images)
        /\ sel_complete

(***************************************************************************)
(* C26  Operator confirmation gate: with a warning about resources and     *)
(* without auto_confirm, run() creates no run state and dispatches no      *)
(* group before the operator has answered; when the operator declines, or  *)
(* no answer can be had, no group is ever executed.  The code goes on      *)
(* when input() raises EOFError.                                           *)
(***************************************************************************)
C26_ConfirmationGate ==
    (Warnings(config) /\ config.operator # "auto") =>
        /\ run_pc \in {"start", "confirm"} =>
              /\ sm_state = NoState
              /\ files[StateFile] = Absent
              /\ \A g \in Groups : pc[g] = "none"
        /\ config.operator \in {"n", "eof"} =>
              \A g \in Groups : pc[g] \notin {"running", "returned", "raised"}

(***************************************************************************)
(* A run and its resume (cli.py:589-637): the resume is a new process with *)
(* a new engine (create_engine), whose run() computes the prompt plan      *)
(* again (engine.py:688-694) from the same template and the same prompts.  *)
(* Nothing of the plan is in results.json.                                 *)
(***************************************************************************)

\* python main.py --resume <run_dir> after the original invocation has
\* computed its plan and stopped before the run was over: run() reaches
\* _allocate_prompts_for_groups with self._prompt_assignments = []
ResumeRun ==
    /\ invocation = 1
    /\ alloc_pc = "returned"
    /\ invocation' = 2
    /\ first_plan' = plan
    /\ plan' = <<>>
    /\ used_prompts' = {}
    /\ alloc_pc' = "lookup"
    /\ UNCHANGED scene
    /\ UNCHANGED notresume

InitResume ==
    /\ pc = [t \in Tasks |-> "pending"]
    /\ wait = [t \in Tasks |-> 0]
    /\ InitLimiter
    /\ IdleTasks
    /\ EmptyCache
    /\ IdleGroup
    /\ IdlePlan
    /\ IdleRun
    /\ IdleRefs
    /\ IdleSelect
    /\ scene \in Scenes
    /\ alloc_pc = "lookup"
    /\ plan = <<>>
    /\ used_prompts = {}
    /\ invocation = 1
    /\ first_plan = <<>>
    /\ IdleResults
    /\ IdleSummary

NextResume ==
    \/ LookupSpecified
    \/ \E selected \in 0..NumPrompts : AllocateGroup(selected)
    \/ AllocReturn
    \/ ResumeRun

SpecResume == InitResume /\ [][NextResume]_vars

(***************************************************************************)
(* C27  Allocation plan is fixed per run: the prompt that a group is given *)
(* when the run is resumed is the prompt that the original invocation      *)
(* computed for that group.  The resume computes the plan again with       *)
(* random.choice, and the two plans can differ.                            *)
(***************************************************************************)
C27_PlanFixedPerRun ==
    (invocation = 2 /\ alloc_pc = "returned") =>
        \A g \in DOMAIN plan : plan[g] = first_plan[g]

\* the state file holds a dumped RunState that has group g as complete
Persisted(content, g) == content.kind = "json" /\ StrKey(g) \in content.completed

ShouldGenerateText(args) == args.generation_target \in {"text_only", "both"}

\* the text generator is called: "if should_generate_text", then the two
\* tests of engine.py:1020-1022
CallsText(args) == ShouldGenerateText(args) /\ args.text_enabled

\* results.keys()
Keys(res) == {res[k][1] : k \in DOMAIN res}

SortedResults_insertion(res) == res

\* [results[i] for i in sorted(results.keys())]
SortedResults(res) ==
    [n \in 1..Cardinality(Keys(res)) |->
        LET i == CHOOSE i \in Keys(res) : Cardinality({j \in Keys(res) : j < i}) = n - 1
        IN  res[CHOOSE k \in DOMAIN res : res[k][1] = i]]

\* results[image_index] = result
Put(res, i, value) ==
    IF i \in Keys(res)
    THEN [k \in DOMAIN res |-> IF res[k][1] = i THEN <<i, value>> ELSE res[k]]
    ELSE Append(res, <<i, value>>)

\* the preparation loop: _upload_images or _refresh_urls of a task raises
\* and nothing in run_group catches it
PreparationRaises ==
    /\ res_pc = "prepare"
    /\ ShouldGenerateImages(res_args)
    /\ res_args.tasks > 0
    /\ res_pc' = "raised"
    /\ UNCHANGED <<res_args, results, image_results, text_calls>>
    /\ UNCHANGED notout

\* no task: ThreadPoolExecutor(max_workers=0) raises ValueError
NoWorkersRaises ==
    /\ res_pc = "prepare"
    /\ ShouldGenerateImages(res_args)
    /\ res_args.tasks = 0
    /\ res_pc' = "raised"
    /\ UNCHANGED <<res_args, results, image_results, text_calls>>
    /\ UNCHANGED notout

\* futures = {executor.submit(generate_single, task): task for task in tasks}
SubmitFutures ==
    /\ res_pc = "prepare"
    /\ ShouldGenerateImages(res_args)
    /\ res_args.tasks > 0
    /\ res_pc' = "generating"
    /\ UNCHANGED <<res_args, results, image_results, text_calls>>
    /\ UNCHANGED notout

\* "if should_generate_images" is false: no image part
SkipImages ==
    /\ res_pc = "prepare"
    /\ ~ShouldGenerateImages(res_args)
    /\ res_pc' = "text"
    /\ UNCHANGED <<res_args, results, image_results, text_calls>>
    /\ UNCHANGED notout

\* as_completed hands over the future of task i: its ImageResult, or the
\* failed ImageResult of "except Exception", goes into results
FutureCompletes(i, success) ==
    /\ res_pc = "generating"
    /\ i \in 1..res_args.tasks
    /\ i \notin Keys(results)
    /\ results' = Put(results, i, success)
    /\ UNCHANGED <<res_args, res_pc, image_results, text_calls>>
    /\ UNCHANGED notout

\* every future has been handed over: return the sorted list
ReturnSorted ==
    /\ res_pc = "generating"
    /\ Keys(results) = 1..res_args.tasks
    /\ image_results' = SortedResults(results)
    /\ res_pc' = "text"
    /\ UNCHANGED <<res_args, results, text_calls>>
    /\ UNCHANGED notout

\* text_data = self.text_generator.generate_sync(product_info); what it
\* raises is caught and becomes a failed TextResult
GenerateText ==
    /\ res_pc = "text"
    /\ CallsText(res_args)
    /\ text_calls' = text_calls + 1
    /\ res_pc' = "result"
    /\ UNCHANGED <<res_args, results, image_results>>
    /\ UNCHANGED notout

\* no text for this template, or no text generator that is enabled
SkipText ==
    /\ res_pc = "text"
    /\ ~CallsText(res_args)
    /\ res_pc' = "result"
    /\ UNCHANGED <<res_args, results, image_results, text_calls>>
    /\ UNCHANGED notout

\* GroupResult(...), save_group_result, mark_group_complete, return
ReturnResult ==
    /\ res_pc = "result"
    /\ res_pc' = "returned"
    /\ UNCHANGED <<res_args, results, image_results, text_calls>>
    /\ UNCHANGED notout

\* the templates and task counts of a call; a template without images has
\* no image task
ResultCalls ==
    {a \in [tasks : 0..MaxTasks,
            generation_target : {"image_only", "text_only", "both"},
            text_enabled : BOOLEAN] :
        ~ShouldGenerateImages(a) => a.tasks = 0}

InitResults ==
    /\ pc = [t \in Tasks |-> "pending"]
    /\ wait = [t \in Tasks |-> 0]
    /\ InitLimiter
    /\ IdleTasks
    /\ EmptyCache
    /\ IdleGroup
    /\ IdlePlan
    /\ IdleAlloc
    /\ IdleRun
    /\ IdleRefs
    /\ IdleSelect
    /\ IdleResume
    /\ res_args \in ResultCalls
    /\ res_pc = "prepare"
    /\ results = <<>>
    /\ image_results = <<>>
    /\ text_calls = 0
    /\ IdleSummary

NextResults ==
    \/ PreparationRaises
    \/ NoWorkersRaises
    \/ SubmitFutures
    \/ SkipImages
    \/ \E i \in 1..MaxTasks, success \in BOOLEAN : FutureCompletes(i, success)
    \/ ReturnSorted
    \/ GenerateText
    \/ SkipText
    \/ ReturnResult

SpecResults == InitResults /\ [][NextResults]_vars

\* _run_concurrent_generation_v2 has returned its list
ResultsReturned ==
    /\ ShouldGenerateImages(res_args)
    /\ res_pc \in {"text", "result", "returned"}

(***************************************************************************)
(* C29  Deterministic task-result order: in whatever order the tasks of a  *)
(* group end, the list of image results that is returned is in ascending   *)
(* task index and has exactly one result for each submitted task, the      *)
(* result that the task gave.                                              *)
(***************************************************************************)
C29_ResultOrder ==
    ResultsReturned =>
        /\ Len(image_results) = res_args.tasks
        /\ \A n \in DOMAIN image_results :
              /\ image_results[n][1] = n
              /\ \E k \in DOMAIN results : results[k] = image_results[n]

\* three tasks ended in the order 3, 1, 2 and the list has them as 1, 2, 3
C29_Witness ==
    /\ ResultsReturned
    /\ Len(results) = 3
    /\ results[1][1] = 3 /\ results[2][1] = 1 /\ results[3][1] = 2
    /\ image_results[1][1] = 1 /\ image_results[2][1] = 2 /\ image_results[3][1] = 3

(***************************************************************************)
(* C30  Text generation at most once per group: the text generator is      *)
(* called at most once for a group, and whether it is called does not      *)
(* depend on how the image tasks of the group went: a group that has image *)
(* tasks and has ended has had its one call exactly when its template and  *)
(* text generator ask for text.  An upload that fails while a task is      *)
(* prepared ends run_group before the text part.                           *)
(***************************************************************************)
C30_TextOncePerGroup ==
    /\ text_calls <= 1
    /\ (/\ res_pc \in {"returned", "raised"}
        /\ ShouldGenerateImages(res_args) => res_args.tasks > 0) =>
          text_calls = IF CallsText(res_args) THEN 1 ELSE 0

(***************************************************************************)
(* C31  Uploads run outside the cache lock: no thread holds the lock of    *)
(* the upload cache while a call of the uploader (the upload of a new key  *)
(* or a refresh of URLs) is going on.  In the code both calls are made     *)
(* inside "with self._upload_lock".                                        *)
(***************************************************************************)
C31_UploadOutsideLock ==
    \A w \in Workers : pc[w] \in {"uploading", "refreshing"} => upload_lock # w

(***************************************************************************)
(* run() (engine.py:747-813) with every group submitted: execute_group of  *)
(* each group in its thread, the counters under results_lock, the main     *)
(* thread taking the futures from as_completed, and the RunResult.         *)
(* run_group's return and the entry into "with results_lock" are one step, *)
(* as are the last write to the counters and the return of execute_group.  *)
(* pc[g]:  running, counting, failing (inside the lock), returned, raised  *)
(*         (the future is done), logged, dropped (as_completed gave it)    *)
(***************************************************************************)
ResultsLockIsFree_unguarded(l) == TRUE

\* "with results_lock" is entered only when no thread is inside
ResultsLockIsFree(l) == l = NoGroup

\* the counters as they are
Counters == [total |-> total_images, successful |-> successful_images,
             failed |-> failed_images]

\* the GroupResults that run_group can return: their images and how many of
\* them have success
GroupImages == {r \in [n : 0..images_per_group, ok : 0..images_per_group] : r.ok <= r.n}

\* group_result = self.run_group(...) returns; with results_lock: the loop
\* over group_result.images starts on the counters it finds
CountBegin(g, r) ==
    /\ pc[g] = "running"
    /\ ResultsLockIsFree(results_lock)
    /\ results_lock' = g
    /\ snap' = [snap EXCEPT ![g] = Counters]
    /\ group_images' = [group_images EXCEPT ![g] = r]
    /\ pc' = [pc EXCEPT ![g] = "counting"]
    /\ UNCHANGED <<total_images, successful_images, failed_images, log_groups, summary>>
    /\ UNCHANGED notsum

\* the loop has counted every image: total_images += 1 for each, and
\* successful_images += 1 or failed_images += 1; return group_result
CountEnd(g) ==
    /\ pc[g] = "counting"
    /\ total_images' = snap[g].total + group_images[g].n
    /\ successful_images' = snap[g].successful + group_images[g].ok
    /\ failed_images' = snap[g].failed + (group_images[g].n - group_images[g].ok)
    /\ results_lock' = NoGroup
    /\ pc' = [pc EXCEPT ![g] = "returned"]
    /\ UNCHANGED <<snap, group_images, log_groups, summary>>
    /\ UNCHANGED notsum

\* run_group raises; except Exception: with results_lock
FailBegin(g) ==
    /\ pc[g] = "running"
    /\ ResultsLockIsFree(results_lock)
    /\ results_lock' = g
    /\ snap' = [snap EXCEPT ![g] = Counters]
    /\ pc' = [pc EXCEPT ![g] = "failing"]
    /\ UNCHANGED <<group_images, total_images, successful_images, failed_images,
                   log_groups, summary>>
    /\ UNCHANGED notsum

\* failed_images += 1; return None
FailEnd(g) ==
    /\ pc[g] = "failing"
    /\ failed_images' = snap[g].failed + 1
    /\ results_lock' = NoGroup
    /\ pc' = [pc EXCEPT ![g] = "raised"]
    /\ UNCHANGED <<snap, group_images, total_images, successful_images, log_groups, summary>>
    /\ UNCHANGED notsum

\* as_completed gives the future of a group that returned its GroupResult:
\* generation_log.groups.append(result.to_dict()); group_results.append(result)
LogGroup(g) ==
    /\ pc[g] = "returned"
    /\ log_groups' = Append(log_groups, g)
    /\ pc' = [pc EXCEPT ![g] = "logged"]
    /\ UNCHANGED <<results_lock, snap, group_images, total_images, successful_images,
                   failed_images, summary>>
    /\ UNCHANGED notsum

\* as_completed gives the future of a group whose execute_group returned
\* None: "if result" is false
DropGroup(g) ==
    /\ pc[g] = "raised"
    /\ pc' = [pc EXCEPT ![g] = "dropped"]
    /\ UNCHANGED sumvars
    /\ UNCHANGED notsum

\* the executor is left: result = RunResult(...), and
\* generation_log.summary = result.to_dict()
Summarise ==
    /\ summary.kind = "none"
    /\ \A g \in Groups : pc[g] \in {"logged", "dropped"}
    /\ summary' = [kind |-> "result", total |-> total_images,
                   successful |-> successful_images, failed |-> failed_images,
                   completed |-> Len(log_groups)]
    /\ UNCHANGED <<pc, results_lock, snap, group_images, total_images, successful_images,
                   failed_images, log_groups>>
    /\ UNCHANGED notsum

\* every group of the template is pending and has been submitted
InitSummary ==
    /\ pc = [g \in Groups |-> "running"]
    /\ wait = [g \in Groups |-> 0]
    /\ InitLimiter
    /\ IdleTasks
    /\ EmptyCache
    /\ IdleGroup
    /\ IdlePlan
    /\ IdleAlloc
    /\ IdleRun
    /\ IdleRefs
    /\ IdleSelect
    /\ IdleResume
    /\ IdleResults
    /\ IdleSummary

NextSummary ==
    \/ \E g \in Groups, r \in GroupImages : CountBegin(g, r)
    \/ \E g \in Groups : CountEnd(g)
    \/ \E g \in Groups : FailBegin(g)
    \/ \E g \in Groups : FailEnd(g)
    \/ \E g \in Groups : LogGroup(g)
    \/ \E g \in Groups : DropGroup(g)
    \/ Summarise

SpecSummary == InitSummary /\ [][NextSummary]_vars

(***************************************************************************)
(* C32  Deterministic group-result order: in whatever order the groups     *)
(* end, the group results in the generation log of run() are in ascending  *)
(* group index.  The code appends them in the order of as_completed and    *)
(* does not sort.                                                          *)
(***************************************************************************)
C32_GroupOrder ==
    summary.kind = "result" =>
        \A i, j \in DOMAIN log_groups : i < j => log_groups[i] < log_groups[j]

\* the sum of f over the groups of S
RECURSIVE SumOver(_, _)
SumOver(S, f) ==
    IF S = {} THEN 0
    ELSE LET g == CHOOSE g \in S : TRUE IN f[g] + SumOver(S \ {g}, f)

\* the groups whose GroupResult was returned to run()
ReturnedGroups == {log_groups[i] : i \in DOMAIN log_groups}

(***************************************************************************)
(* C34  Run-level counters have no lost updates: however the groups end,   *)
(* total_images and successful_images of the RunResult are the number of   *)
(* image results and of successful image results of all the GroupResults   *)
(* that were returned in this invocation.                                  *)
(***************************************************************************)
C34_NoLostUpdates ==
    summary.kind = "result" =>
        /\ summary.total = SumOver(ReturnedGroups, [g \in Groups |-> group_images[g].n])
        /\ summary.successful = SumOver(ReturnedGroups, [g \in Groups |-> group_images[g].ok])

\* every group returned a GroupResult with images, one of them with a
\* failed image, and the RunResult has counted them all
C34_Witness ==
    /\ summary.kind = "result"
    /\ ReturnedGroups = Groups
    /\ \A g \in Groups : group_images[g].n > 0
    /\ \E g \in Groups : group_images[g].ok < group_images[g].n
    /\ summary.total = SumOver(Groups, [g \in Groups |-> group_images[g].n])

(***************************************************************************)
(* C35  Summary counts are consistent: in every RunResult                  *)
(* successful_images + failed_images = total_images, also when a whole     *)
(* group failed with an exception.  The except branch of execute_group     *)
(* adds 1 to failed_images and nothing to total_images.                    *)
(***************************************************************************)
C35_CountsConsistent ==
    summary.kind = "result" => summary.successful + summary.failed = summary.total

(***************************************************************************)
(* Termination of the tasks of a run (engine.py:1182-1300).                *)
(*                                                                         *)
(* Every thread of the pools keeps running (max_workers = len(tasks), so   *)
(* each task has a thread of its own), the clock advances, and every       *)
(* api_client.generate_image call, every RateLimiter sleep and every       *)
(* backoff sleep returns: each step of a task that stays possible is       *)
(* eventually taken.                                                       *)
(***************************************************************************)
TaskStep(t) ==
    \/ TaskStart(t)
    \/ RLCheck(t, "call")
    \/ RLWake(t)
    \/ CallOk(t)
    \/ \E err \in Errors : CallFails(t, err)
    \/ CallRaises(t)
    \/ BackoffDone(t)

SpecTaskFair ==
    /\ InitTask
    /\ [][NextTask]_vars
    /\ WF_vars(Tick)
    /\ WF_vars(\E t \in Tasks : TaskStep(t))

AllTasksFinished == \A t \in Tasks : pc[t] \in Finished

C36_RoundTrip ==
    sm_state.kind = "state" =>
        \A g \in Groups :
            IsGroupComplete(LoadState(Serialize(sm_state)), g)
                <=> IsGroupComplete(sm_state, g)

(***************************************************************************)
(* C37  State is stored in the run's own directory: in a run started       *)
(* without --resume, once run_group(g) has returned its GroupResult the    *)
(* file results.json of the run directory that run() created exists and    *)
(* records g as complete.                                                  *)
(***************************************************************************)
C37_StateInRunDir ==
    \A g \in Groups :
        resume_dir = "-" /\ pc[g] = "returned" => Persisted(files["run"], g)

(***************************************************************************)
(* C38  Every backend attempt is individually rate-limited: with the rate  *)
(* limiter enabled, a task comes to a call of api_client.generate_image,   *)
(* for the first attempt and for every retry, only by an admission of its  *)
(* own RateLimiter.acquire, made at that moment, and the admissions of the *)
(* trailing window, these calls, never exceed max_requests.                *)
(***************************************************************************)
C38_EveryAttemptAdmitted ==
    [][use_rate_limiter =>
         \A t \in Tasks :
             pc[t] # "call" /\ pc'[t] = "call" =>
                 /\ pc[t] = "rl_check"
                 /\ admitted' = Append(admitted, 0)
                 /\ Len(admitted') <= max_requests]_vars

\* a retry attempt is at its backend call, admitted as the last one that the
\* window had room for
C38_Witness ==
    /\ use_rate_limiter
    /\ Len(admitted) = max_requests
    /\ \E t \in Tasks : pc[t] = "call" /\ attempt[t] > 0 /\ calls[t] = attempt[t]

(***************************************************************************)
(* The RateLimiter with callers that each call acquire() once              *)
(* (engine.py:57-78).                                                      *)
(*                                                                         *)
(* The clock advances, and a thread that is in acquire() keeps running:    *)
(* its check under the lock and its return from time.sleep are eventually  *)
(* done.  Nothing makes a thread call acquire().                           *)
(***************************************************************************)
AcquireStep(t) == RLCheck(t, "returned") \/ RLWake(t)

NextAcquire ==
    \/ \E t \in Threads : RLCall(t)
    \/ \E t \in Threads : RLCheck(t, "returned")
    \/ \E t \in Threads : RLWake(t)
    \/ Tick

SpecAcquire == InitRL /\ [][NextAcquire]_vars

SpecAcquireFair ==
    /\ SpecAcquire
    /\ WF_vars(Tick)
    /\ \A t \in Threads : WF_vars(AcquireStep(t))

InAcquire(t) == pc[t] \in {"rl_check", "rl_sleep"}

(***************************************************************************)
(* C39  RateLimiter liveness: with finitely many calls, time advancing and *)
(* fair scheduling, every call of acquire() eventually returns: a caller   *)
(* that was put to sleep checks the window again when the sleep is over    *)
(* and is admitted once an old admission has left the window.              *)
(***************************************************************************)
C39_AcquireReturns ==
    \A t \in Threads : InAcquire(t) ~> (pc[t] = "returned")

\* a caller's sleep is over while the callers admitted before it have
\* returned and their admissions have left the window: its next check
\* admits it
C39_Witness ==
    \E t \in Threads :
        /\ pc[t] = "rl_sleep"
        /\ wait[t] = 0
        /\ HasQuota(Prune(requests))
        /\ Cardinality({u \in Threads : pc[u] = "returned"}) = max_requests

(***************************************************************************)
(* The upload cache with an uploader that may also return no result        *)
(* (engine.py:187-192).                                                    *)
(*                                                                         *)
(* moss_uploader is the collaborator handed to the engine (engine.py:99);  *)
(* _upload_images provides for an empty result list with "if results:".    *)
(***************************************************************************)

\* upload_batch_sync([path], folder) returns []: "if results:" is false,
\* nothing is cached and nothing appended, the lock is released and the loop
\* goes on with the next path
UploadEmpty(w) ==
    /\ pc[w] = "uploading"
    /\ upload_lock' = 0
    /\ up_i' = [up_i EXCEPT ![w] = @ + 1]
    /\ pc' = [pc EXCEPT ![w] = "up_loop"]
    /\ UNCHANGED <<uploaded_urls, uploaded_moss_ids, up_paths, up_urls,
                   upload_calls, upload_ok, got, differ, cur>>
    /\ UNCHANGED notup

NextRefresh ==
    \/ NextUpload
    \/ \E w \in Workers : UploadEmpty(w)

SpecRefresh == InitUpload /\ [][NextRefresh]_vars

====
